---- MODULE Spec2Model ----
(***************************************************************************)
(* Two browsers running the tank game: the peer session (webrtc.js) and    *)
(* the replication layer on top of it (game.js).  Each peer's handlers run *)
(* to completion (single-threaded event loop); a handler is one action.    *)
(* A handler's body is an operator on a "world" record w that threads the  *)
(* peer's objects through the statements in source order; w.thrown marks a *)
(* pending JavaScript exception, which skips the statements that follow    *)
(* until a try/catch (dataChannel.onmessage) absorbs it.                   *)
(***************************************************************************)
EXTENDS Integers, Sequences, FiniteSets, TLC

\* ---------------------------------------------------------------- bounds
MaxQueue == 2       \* frames in flight towards one peer
MaxBullets == 1     \* local bullets in flight per peer
MaxScore == 3       \* a peer stops shooting once its scoreboard sums to this
MaxSessions == 1    \* transports one browser creates over its page loads
MaxTransports == 2  \* transports one page creates in its lobby, remote elsewhere
MaxClock == 0       \* Date.now() readings are drawn from 0..MaxClock
MaxTrees == 2       \* trees the random placement puts on a map

\* ------------------------------------------------------- program constants
maxPlayerHealth == 100
explosionMaxDamage == 50
playerUpdateInterval == 50   \* 1 / 20 s, in milliseconds

HOST == "host"
CLIENT == "client"
Peers == {HOST, CLIENT}
Other(p) == IF p = HOST THEN CLIENT ELSE HOST

Null == "null"
Undefined == "<undefined>"

ROLES == [HOST |-> "host", CLIENT |-> "client"]

GAME_MODES == [BO3 |-> "bo3", BO5 |-> "bo5", INFINITE |-> "infinite"]

Modes == {GAME_MODES.BO3, GAME_MODES.BO5, GAME_MODES.INFINITE}

MSG_TYPES ==
  [PLAYER_UPDATE |-> "player_update", BULLET_SPAWN |-> "bullet_spawn",
   DAMAGE |-> "damage", DEATH |-> "death", GAME_START |-> "game_start",
   ROUND_START |-> "round_start", ROUND_END |-> "round_end",
   GAME_END |-> "game_end", PLAYER_INFO |-> "player_info", READY |-> "ready",
   SYNC_REQUEST |-> "sync_request", SYNC_RESPONSE |-> "sync_response"]

\* MSG_TYPES.KEY as JavaScript reads it: a missing key reads as undefined
MsgType(key) == IF key \in DOMAIN MSG_TYPES THEN MSG_TYPES[key] ELSE Undefined

\* winThreshold is a number or Infinity
Infinity == [finite |-> FALSE, value |-> 0]
Finite(n) == [finite |-> TRUE, value |-> n]
\* score >= threshold
AtLeast(score, threshold) == threshold.finite /\ score >= threshold.value

getWinThreshold(mode) ==
  IF mode = GAME_MODES.BO3 THEN Finite(2)
  ELSE IF mode = GAME_MODES.BO5 THEN Finite(3)
  ELSE Infinity

\* the page's #health-bar-fill element, looked up once in init()
healthBarFill == TRUE

\* the profile each user has entered in the menu (menuManager.getPlayerData)
getPlayerData(p) ==
  IF p = HOST THEN [username |-> "Hank", color |-> "red"]
  ELSE [username |-> "Cleo", color |-> "blue"]

\* the placement list as the module creates it; of its three lists
\* (warehouses, trees, barriers) the trees are modelled
decorationPositions == [trees |-> << >>]

\* ------------------------------------------------------------ wire format
Envelope(type, data, ts) == [type |-> type, data |-> data, timestamp |-> ts]

\* JSON.stringify of an envelope: a key whose value is undefined is omitted
JSONstringify(msg) ==
  [text |-> "json",
   value |-> IF msg.type = Undefined
             THEN [data |-> msg.data, timestamp |-> msg.timestamp]
             ELSE msg]

Garbage == [text |-> "garbage"]

\* the object literal {}
EmptyObject == << >>

\* JSON.parse throws on text that is not JSON
ParseThrows(raw) == raw.text # "json"
JSONparse(raw) == raw.value
\* message.type: a missing property reads as undefined
TypeOf(message) == IF "type" \in DOMAIN message THEN message.type ELSE Undefined

Timestamps == 0..MaxClock


\* ------------------------------------------------------------------ state
VARIABLES
  web,       \* per peer: the WebRTCManager fields and its transport objects
  game,      \* per peer: gameState
  sim,       \* per peer: local bullets in flight, pending respawn timers
  cutscene,  \* per peer: the CutsceneManager fields
  ui,        \* per peer: which screens are shown
  chan,      \* per peer: frames in flight towards it, in channel order
  seen,      \* per peer: what an observer of that peer has counted so far
  probe      \* a single call under test and its result (unit specifications)

vars == <<web, game, sim, cutscene, ui, chan, seen, probe>>

\* the world a handler of peer p runs in; ts is what Date.now() returns
World(p, ts) ==
  [me |-> p, ts |-> ts, web |-> web[p], game |-> game[p], sim |-> sim[p],
   cs |-> cutscene[p], ui |-> ui[p], seen |-> seen[p],
   out |-> <<>>, ev |-> <<>>, thrown |-> FALSE, caught |-> FALSE, ret |-> TRUE]

Player(g, key) == IF key = "player1" THEN g.player1 ELSE g.player2

SetHealth(g, key, h) ==
  IF key = "player1" THEN [g EXCEPT !.player1.health = h]
  ELSE [g EXCEPT !.player2.health = h]

AddScore(g, key) ==
  IF key = "player1" THEN [g EXCEPT !.player1.score = @ + 1]
  ELSE [g EXCEPT !.player2.score = @ + 1]

Max(a, b) == IF a >= b THEN a ELSE b

Throw(w) == [w EXCEPT !.thrown = TRUE]

\* EventEmitter.emit: the listeners of the event run next, in the same handler
Emit(w, event) == [w EXCEPT !.ev = Append(@, event)]

\* ------------------------------------------------- WebRTCManager.send
send_NoGuard(w, type, data) ==
  IF w.web.dataChannel # "open"
  THEN [w EXCEPT !.ret = FALSE]
  ELSE [w EXCEPT !.out = Append(@, JSONstringify(Envelope(type, data, w.ts))),
                 !.ret = TRUE]

send(w, type, data) ==
  IF ~w.web.isConnected \/ w.web.dataChannel = Null
  THEN [w EXCEPT !.ret = FALSE]
  ELSE IF w.web.dataChannel # "open"
       \* RTCDataChannel.send throws on a channel that is not open; caught
       THEN [w EXCEPT !.ret = FALSE]
       ELSE [w EXCEPT !.out = Append(@, JSONstringify(Envelope(type, data, w.ts))),
                      !.ret = TRUE]

\* a game-level send: skipped once an exception is pending
Send(w, type, data) == IF w.thrown THEN w ELSE send(w, type, data)

Networked(g) == g.isMultiplayer /\ ~g.isTestMode

\* ------------------------------------------------- cutscene collaborator
playCutscene(w, finalScores) ==
  IF w.cs.isPlaying THEN w
  ELSE [w EXCEPT !.cs.isPlaying = TRUE, !.cs.plays = @ + 1,
                 !.cs.finalScores = finalScores]

endCutscene(w) == [w EXCEPT !.cs.isPlaying = FALSE]

\* the catch branch of runCutsceneSequence: a phase has rejected
sequenceFailed(w) == endCutscene(w)

\* skip: endCutscene, then the reload timer of 500 ms is armed
skip(w) ==
  IF ~w.cs.isPlaying THEN w
  ELSE [endCutscene(w) EXCEPT !.cs.reload = TRUE]

triggerFinalCutscene(w) ==
  LET w1 == [w EXCEPT !.game.isControlsLocked = TRUE]
  IN playCutscene(w1, [player1 |-> w1.game.player1.score,
                       player2 |-> w1.game.player2.score])

checkWinCondition_LocalOnly(w) ==
  IF AtLeast(Player(w.game, w.game.localPlayer).score, w.game.winThreshold)
  THEN triggerFinalCutscene(w)
  ELSE w

checkWinCondition(w) ==
  IF AtLeast(Player(w.game, w.game.localPlayer).score, w.game.winThreshold)
  THEN triggerFinalCutscene(w)
  ELSE IF AtLeast(Player(w.game, w.game.remotePlayer).score, w.game.winThreshold)
       THEN triggerFinalCutscene(w)
       ELSE w

\* updateHealthBar reads gameState.localPlayer.health when the element exists
updateHealthBar(w) ==
  IF w.thrown THEN w
  ELSE IF healthBarFill /\ w.game.localPlayer = Null THEN Throw(w)
  ELSE w

\* ------------------------------------------------- death and respawn
handleLocalDeath(w) ==
  IF w.thrown THEN w
  ELSE
    LET w0 == [w EXCEPT !.seen.declared = @ + 1]
        ws == IF Networked(w0.game) THEN Send(w0, MsgType("DEATH"), EmptyObject) ELSE w0
        w1 == IF Len(ws.out) > Len(w0.out) THEN [ws EXCEPT !.seen.deathsSent = @ + 1] ELSE ws
    IN IF w1.game.remotePlayer = Null THEN Throw(w1)
       ELSE LET w2 == [w1 EXCEPT !.game = AddScore(@, w1.game.remotePlayer)]
                w3 == checkWinCondition(w2)
            IN [w3 EXCEPT !.sim.respawnTimers = @ + 1]

handleRemoteDeath(w) ==
  IF w.thrown THEN w
  ELSE
    LET w0 == [w EXCEPT !.seen.deathsReceived = @ + 1]
    IN IF w0.game.localPlayer = Null THEN Throw(w0)
       ELSE checkWinCondition([w0 EXCEPT !.game = AddScore(@, w0.game.localPlayer)])

respawnLocalPlayer(w) ==
  IF w.game.localPlayer = Null THEN Throw(w)
  ELSE [w EXCEPT !.game = SetHealth(@, w.game.localPlayer, maxPlayerHealth)]

\* the shared body of the two branches: decrement, clamp, bar, death check
ApplyDamage_NoClamp(w, key, damage) ==
  LET h == Player(w.game, key).health - damage
      w1 == updateHealthBar([w EXCEPT !.game = SetHealth(@, key, h)])
  IN IF ~w1.thrown /\ h <= 0 THEN handleLocalDeath(w1) ELSE w1

\* health -= damage; health = Math.max(0, health); updateHealthBar();
\* if (health <= 0) handleLocalDeath()
ApplyDamage(w, key, damage) ==
  LET h == Max(0, Player(w.game, key).health - damage)
      w1 == updateHealthBar([w EXCEPT !.game = SetHealth(@, key, h)])
  IN IF ~w1.thrown /\ h <= 0 THEN handleLocalDeath(w1) ELSE w1

handleRemoteDamage_AnyTarget(w, data) ==
  IF w.game.role = ROLES.HOST
  THEN ApplyDamage(w, "player1", data.damage)
  ELSE IF w.game.role = ROLES.CLIENT
       THEN ApplyDamage(w, "player2", data.damage)
       ELSE w

handleRemoteDamage(w, data) ==
  IF data.target = "player1" /\ w.game.role = ROLES.HOST
  THEN ApplyDamage(w, "player1", data.damage)
  ELSE IF data.target = "player2" /\ w.game.role = ROLES.CLIENT
       THEN ApplyDamage(w, "player2", data.damage)
       ELSE w

\* checkExplosionDamage(position): d1, d2 are the damage the blast deals to
\* player1Tank and player2Tank (0: outside the blast radius)
ExplodeAt_Direct(w, key, ownerRole, d) ==
  IF w.thrown \/ ~Player(w.game, key).tank \/ d = 0 THEN w
  ELSE ApplyDamage(w, key, d)

ExplodeAt(w, key, ownerRole, d) ==
  IF w.thrown \/ ~Player(w.game, key).tank \/ d = 0 THEN w
  ELSE IF w.game.role = ownerRole
       THEN ApplyDamage(w, key, d)
       ELSE IF Networked(w.game)
            THEN Send(w, MsgType("DAMAGE"), [damage |-> d, target |-> key])
            ELSE w

\* s without its i-th element: array.splice(i, 1)
Splice(s, i) == SubSeq(s, 1, i - 1) \o SubSeq(s, i + 1, Len(s))

\* array.indexOf(x), 1-based; 0 when x is not an element
IndexOf(s, x) ==
  IF \E i \in 1..Len(s) : s[i] = x
  THEN CHOOSE i \in 1..Len(s) : s[i] = x /\ \A j \in 1..(i - 1) : s[j] # x
  ELSE 0

\* the loop of checkExplosionDamage over collidables[i], i downwards: a tree
\* within the blast (hit) leaves both lists and its id is sent
RECURSIVE destroyTrees(_, _, _)
destroyTrees(w, hit, i) ==
  IF i = 0 \/ w.thrown THEN w
  ELSE LET collidable == w.sim.collidables[i]
       IN IF collidable \notin hit THEN destroyTrees(w, hit, i - 1)
          ELSE LET treeIdx == IndexOf(w.sim.trees, collidable)
                   w1 == [w EXCEPT !.sim.collidables = Splice(@, i),
                                   !.sim.trees = IF treeIdx > 0
                                                 THEN Splice(@, treeIdx) ELSE @]
                   w2 == IF Networked(w1.game)
                         THEN Send(w1, MsgType("TREE_DESTROYED"),
                                   [treeId |-> collidable.id])
                         ELSE w1
               IN destroyTrees(w2, hit, i - 1)

checkExplosionDamage(w, d1, d2, hit) ==
  LET w1 == ExplodeAt(ExplodeAt(w, "player1", ROLES.HOST, d1),
                      "player2", ROLES.CLIENT, d2)
  IN destroyTrees(w1, hit, Len(w1.sim.collidables))

\* ------------------------------------------------- the map
\* tree.userData.id of the i-th tree a page places
TreeIds == <<"tree_0", "tree_1", "tree_2", "tree_3">>

\* the callback of loadTrees: count trees at random places (all tagged x)
\* enter the scene lists and the placement list
treesLoaded(w, count, x) ==
  LET placed == [i \in 1..count |-> [id |-> TreeIds[i], x |-> x]]
  IN [w EXCEPT !.sim.trees = @ \o placed,
               !.sim.collidables = @ \o placed,
               !.sim.decorationPositions.trees = @ \o placed]

syncMapFromHost(w, mapData) ==
  [w EXCEPT !.sim.decorationPositions = [trees |-> mapData.trees]]

\* data[key]: a missing property reads as undefined
Field(data, key) == IF key \in DOMAIN data THEN data[key] ELSE Undefined

handleRemoteTreeDestruction_Unguarded(w, data) ==
  LET treeId == Field(data, "treeId")
      trees == w.sim.trees
      found == {i \in 1..Len(trees) : trees[i].id = treeId}
      i == IF found = {} THEN Len(trees)
           ELSE CHOOSE i \in found : \A j \in found : j <= i
      rest == Splice(trees, i)
      colIdx == IF i <= Len(rest) THEN IndexOf(w.sim.collidables, rest[i]) ELSE 0
  IN IF trees = << >> THEN w
     ELSE [w EXCEPT !.sim.trees = rest,
                    !.sim.collidables = IF colIdx > 0 THEN Splice(@, colIdx) ELSE @]

\* trees.splice(i, 1) runs before collidables.indexOf(trees[i]) reads
\* trees[i], which by then is the element that followed (or undefined)
handleRemoteTreeDestruction(w, data) ==
  LET treeId == Field(data, "treeId")
      trees == w.sim.trees
      found == {i \in 1..Len(trees) : trees[i].id = treeId}
  IN IF found = {} THEN w
     ELSE LET i == CHOOSE i \in found : \A j \in found : j <= i
              rest == Splice(trees, i)
              colIdx == IF i <= Len(rest)
                        THEN IndexOf(w.sim.collidables, rest[i]) ELSE 0
          IN [w EXCEPT !.sim.trees = rest,
                       !.sim.collidables =
                          IF colIdx > 0 THEN Splice(@, colIdx) ELSE @]

\* ------------------------------------------------- start of the game
\* where createTankGroup puts the two tanks (x coordinate)
spawn == [player1 |-> -50, player2 |-> 50]

createTanks(w) ==
  LET g1 == [w.game EXCEPT !.player1.tank = TRUE, !.player2.tank = TRUE]
  IN [w EXCEPT !.game =
        IF g1.role = ROLES.HOST
        THEN [g1 EXCEPT !.localPlayer = "player1", !.remotePlayer = "player2"]
        ELSE [g1 EXCEPT !.localPlayer = "player2", !.remotePlayer = "player1"]]

startGame(w) ==
  LET w1 == createTanks([w EXCEPT !.game.gameStarted = TRUE])
      w2 == [w1 EXCEPT !.game.isRoundActive = TRUE]
  IN IF Networked(w2.game) THEN Send(w2, MsgType("READY"), EmptyObject) ELSE w2

\* remotePlayerState.lastUpdate is written here too and read nowhere
updateRemotePlayer(w, data) ==
  IF w.game.remotePlayer = Null THEN Throw(w)
  ELSE IF ~Player(w.game, w.game.remotePlayer).tank THEN w
  ELSE [w EXCEPT !.sim.remotePlayerState = [position |-> data.position]]

\* ------------------------------------------------- inbound messages
applyMatchConfig_OwnMode(w, data) ==
  [w EXCEPT !.game.winThreshold = getWinThreshold(w.game.gameMode)]

\* the GAME_START case takes mode and threshold from the Envelope
applyMatchConfig(w, data) ==
  [w EXCEPT !.game.gameMode = data.mode,
            !.game.winThreshold = getWinThreshold(data.mode)]

handleNetworkMessage(w, message) ==
  LET type == TypeOf(message)
      data == message.data
  IN
  IF type = MsgType("PLAYER_INFO") THEN
    IF w.game.role = ROLES.HOST
    THEN [w EXCEPT !.game.player2.username = data.username,
                   !.game.player2.color = data.color]
    ELSE [w EXCEPT !.game.player1.username = data.username,
                   !.game.player1.color = data.color]
  ELSE IF type = MsgType("GAME_START") THEN
    LET w1 == applyMatchConfig([w EXCEPT !.seen.handshake = TRUE], data)
    IN startGame(IF "mapData" \in DOMAIN data
                 THEN syncMapFromHost(w1, data.mapData) ELSE w1)
  ELSE IF type = MsgType("PLAYER_UPDATE") THEN updateRemotePlayer(w, data)
  ELSE IF type = MsgType("BULLET_SPAWN") THEN w
  ELSE IF type = MsgType("DAMAGE") THEN handleRemoteDamage(w, data)
  ELSE IF type = MsgType("DEATH") THEN handleRemoteDeath(w)
  ELSE IF type = MsgType("ROUND_END") THEN w
  ELSE IF type = MsgType("TREE_DESTROYED")
       THEN handleRemoteTreeDestruction(w, data)
  ELSE IF type = MsgType("READY") THEN [w EXCEPT !.seen.handshake = TRUE]
  ELSE w

\* dataChannel.onmessage: parse, emit 'message'; any exception is logged
onmessage_Fatal(w, raw) ==
  IF ParseThrows(raw)
  THEN [w EXCEPT !.caught = TRUE, !.seen.malformed = TRUE,
                 !.web.isConnected = FALSE]
  ELSE LET w0 == [w EXCEPT !.seen.recovered = @ \/ w.seen.malformed]
           w1 == handleNetworkMessage(Emit(w0, "message"), JSONparse(raw))
       IN [w1 EXCEPT !.caught = w1.thrown, !.thrown = FALSE]

onmessage(w, raw) ==
  IF ParseThrows(raw)
  THEN [w EXCEPT !.caught = TRUE, !.seen.malformed = TRUE]
  ELSE LET w0 == [w EXCEPT !.seen.recovered = @ \/ w.seen.malformed]
           w1 == handleNetworkMessage(Emit(w0, "message"), JSONparse(raw))
       IN [w1 EXCEPT !.caught = w1.thrown, !.thrown = FALSE]


\* ------------------------------------------------- WebRTCManager handlers
onConnected_HostSkipsInfo(w) ==
  IF w.web.role = ROLES.HOST
  THEN Send(w, MsgType("GAME_START"),
            [mode |-> w.game.gameMode,
             mapData |-> w.sim.decorationPositions])
  ELSE Send(w, MsgType("PLAYER_INFO"), getPlayerData(w.me))

onConnected_GameStartFirst(w) ==
  LET w1 == IF w.web.role = ROLES.HOST
            THEN Send(w, MsgType("GAME_START"),
                      [mode |-> w.game.gameMode,
                       mapData |-> w.sim.decorationPositions])
            ELSE w
  IN Send(w1, MsgType("PLAYER_INFO"), getPlayerData(w.me))

\* game.js listener for 'connected'
onConnected(w) ==
  LET w1 == Send(w, MsgType("PLAYER_INFO"), getPlayerData(w.me))
  IN IF w1.web.role = ROLES.HOST
     THEN Send(w1, MsgType("GAME_START"),
               [mode |-> w1.game.gameMode,
                mapData |-> w1.sim.decorationPositions])
     ELSE w1

dataChannelOnOpen(w) ==
  onConnected(Emit([w EXCEPT !.web.isConnected = TRUE,
                             !.web.connectionTimeout = FALSE,
                             !.seen.opened = TRUE], "connected"))

dataChannelOnClose(w) ==
  Emit([w EXCEPT !.web.isConnected = FALSE,
                 !.seen.terminal = TRUE,
                 !.seen.closedInMatch = @ \/ w.game.gameStarted],
       "disconnected")

onConnectionEstablished(w) == [w EXCEPT !.ui.hideTimer = TRUE]

onConnectionFailed(w) ==
  [w EXCEPT !.web.isConnected = FALSE, !.seen.terminal = TRUE]

onconnectionstatechange(w) ==
  IF w.web.connectionState = "connected" THEN onConnectionEstablished(w)
  ELSE IF w.web.connectionState \in {"failed", "disconnected"}
       THEN onConnectionFailed(w)
       ELSE w

\* arm the connect timer; a timer the handle already named keeps running
setConnectionTimeout(w) ==
  [w EXCEPT !.web.stale = IF w.web.connectionTimeout THEN @ + 1 ELSE @,
            !.web.connectionTimeout = TRUE]

\* the timer callback armed by setConnectionTimeout
connectionTimeoutFired(w) ==
  LET w1 == [w EXCEPT !.web.connectionTimeout = FALSE]
  IN IF ~w1.web.isConnected
     THEN Emit([w1 EXCEPT !.seen.timedOut = TRUE], "timeout")
     ELSE w1

\* the same callback of a timer whose handle was overwritten
staleTimeoutFired(w) ==
  LET w1 == [w EXCEPT !.web.stale = @ - 1]
  IN IF ~w1.web.isConnected
     THEN Emit([w1 EXCEPT !.seen.timedOut = TRUE], "timeout")
     ELSE w1

createPeerConnection(w) ==
  [w EXCEPT !.web.peerConnection = "open", !.web.connectionState = "new",
            !.web.epoch = @ + 1, !.web.remote = 0, !.web.local = FALSE,
            !.web.live = @ + 1, !.seen.terminal = FALSE]

showMainMenu(w) == [w EXCEPT !.ui.menu = TRUE]

cancelConnection_KeepsChannel(w) ==
  LET w1 == [w EXCEPT !.web.connectionTimeout = FALSE,
                      !.web.live = IF w.web.peerConnection = "open"
                                   THEN @ - 1 ELSE @,
                      !.web.peerConnection = Null,
                      !.web.isConnected = FALSE,
                      !.seen.terminal = TRUE,
                      !.seen.cancelled = w.web.epoch,
                      !.ui.lobby = FALSE]
  IN showMainMenu(Emit(w1, "cancelled"))

cancelConnection(w) ==
  LET w1 == [w EXCEPT !.web.connectionTimeout = FALSE,
                      !.web.live = IF w.web.peerConnection = "open"
                                   THEN @ - 1 ELSE @,
                      !.web.peerConnection = Null,
                      !.web.dataChannel = Null,
                      !.web.isConnected = FALSE,
                      !.seen.terminal = TRUE,
                      !.seen.cancelled = w.web.epoch,
                      !.ui.lobby = FALSE]
  IN showMainMenu(Emit(w1, "cancelled"))

disconnect(w) ==
  [w EXCEPT !.web.live = IF w.web.peerConnection = "open" THEN @ - 1 ELSE @,
            !.web.peerConnection = IF @ = Null THEN Null ELSE "closed",
            !.web.dataChannel = IF @ = Null THEN Null ELSE "closed",
            !.web.isConnected = FALSE,
            !.seen.terminal = TRUE]

\* ------------------------------------------------- negotiation steps
\* what is pasted into a lobby input; sdp names the transport it describes
Description(type, e) == [type |-> type, sdp |-> e]

\* an empty input, text JSON.parse rejects, JSON that is no description
Empty == Description("empty", 0)
NotJson == Description("not-json", 0)
NotDescription == Description("json", 0)

\* a page that is not one of the two modelled ones
Elsewhere == MaxSessions + MaxTransports + 1

\* an async function of the manager suspended on its transport pc
Wait(fn, w) ==
  [fn |-> fn, stage |-> "describe", pc |-> w.web.epoch, timer |-> FALSE]

\* startHost up to its first await on the transport (createOffer)
startHost(w) ==
  LET w1 == [w EXCEPT !.web.role = ROLES.HOST, !.ui.lobby = TRUE,
                      !.seen.timedOut = FALSE, !.seen.opened = FALSE]
      w2 == createPeerConnection(w1)
  IN [w2 EXCEPT !.web.dataChannel = "connecting",
                !.web.waits = @ \cup {Wait("startHost", w2)}]

waitForICEGathering_NoCeiling(w, k) ==
  [w EXCEPT !.web.waits = (@ \ {k}) \cup {[k EXCEPT !.stage = "gather"]}]

\* the promise of waitForICEGathering: a listener and a 10 s timer
waitForICEGathering(w, k) ==
  [w EXCEPT !.web.waits =
     (@ \ {k}) \cup {[k EXCEPT !.stage = "gather", !.timer = TRUE]}]

\* createOffer / createAnswer has resolved: setLocalDescription, then the
\* gathering wait
described(w, k) ==
  IF w.web.peerConnection # "open" \/ w.web.epoch # k.pc
  THEN [w EXCEPT !.web.waits = @ \ {k}, !.caught = TRUE]
  ELSE waitForICEGathering([w EXCEPT !.web.local = TRUE], k)

\* the description JSON.stringify(this.peerConnection.localDescription) shows
localDescription(w) == IF w.web.local THEN w.web.epoch ELSE 0

\* startHost resumed once the gathering wait has resolved
startHostResume(w) ==
  IF w.web.peerConnection = Null
  THEN [w EXCEPT !.caught = TRUE]
  ELSE setConnectionTimeout([w EXCEPT !.web.shown = localDescription(w),
                                      !.ui.answerSection = TRUE])

startJoin(w) ==
  setConnectionTimeout([w EXCEPT !.web.role = ROLES.CLIENT, !.ui.lobby = TRUE,
                                 !.ui.joinSection = TRUE,
                                 !.seen.timedOut = FALSE,
                                 !.seen.opened = FALSE,
                                 !.seen.terminal = FALSE])

handleOfferSubmit(w, offerJSON) ==
  IF offerJSON = Empty THEN w
  ELSE IF offerJSON = NotJson THEN [w EXCEPT !.caught = TRUE]
  ELSE LET w1 == createPeerConnection(w)
       IN IF offerJSON.type # "offer"
          THEN [w1 EXCEPT !.caught = TRUE]
          ELSE [w1 EXCEPT !.web.remote = offerJSON.sdp,
                          !.web.waits = @ \cup {Wait("handleOfferSubmit", w1)}]

handleOfferSubmitResume(w) ==
  IF w.web.peerConnection = Null
  THEN [w EXCEPT !.caught = TRUE]
  ELSE [w EXCEPT !.web.shown = localDescription(w), !.ui.joinSection = FALSE]

\* the rest of the suspended function once its gathering wait has resolved
resume(w, k) ==
  IF k.fn = "startHost" THEN startHostResume(w) ELSE handleOfferSubmitResume(w)

\* icegatheringstatechange to 'complete': checkState resolves the wait
checkState(w, k) ==
  resume([w EXCEPT !.web.waits = (@ \ {k}) \cup {[k EXCEPT !.stage = "done"]}], k)

\* the 10 s timer of waitForICEGathering: resolve() once more
gatheringTimeout(w, k) ==
  LET w1 == [w EXCEPT !.web.waits = @ \ {k}]
  IN IF k.stage = "gather" THEN resume(w1, k) ELSE w1

handleAnswerSubmit(w, answerJSON) ==
  IF answerJSON = Empty THEN w
  ELSE IF answerJSON = NotJson THEN [w EXCEPT !.caught = TRUE]
  ELSE IF \/ w.web.peerConnection # "open"
          \/ answerJSON.type # "answer"
          \/ w.web.remote # 0
          \/ ~w.web.local
  THEN [w EXCEPT !.caught = TRUE]
  ELSE [w EXCEPT !.web.remote = answerJSON.sdp]

\* ------------------------------------------------- initial state
InitPlayer == [username |-> "", color |-> "", score |-> 0,
               health |-> maxPlayerHealth, tank |-> FALSE]

GameState ==
  [isMultiplayer |-> FALSE, isTestMode |-> FALSE, role |-> Null,
   localPlayer |-> Null, remotePlayer |-> Null,
   player1 |-> InitPlayer, player2 |-> InitPlayer,
   gameMode |-> GAME_MODES.INFINITE, winThreshold |-> Infinity,
   isRoundActive |-> FALSE, isControlsLocked |-> FALSE, gameStarted |-> FALSE]

WebRTCManager ==
  [peerConnection |-> Null, dataChannel |-> Null, role |-> Null,
   isConnected |-> FALSE, connectionTimeout |-> FALSE,
   connectionState |-> "new", waits |-> {}, stale |-> 0, live |-> 0,
   local |-> FALSE, shown |-> 0, remote |-> 0, epoch |-> 0]

CutsceneManager == [isPlaying |-> FALSE, plays |-> 0, reload |-> FALSE,
                    finalScores |-> [player1 |-> 0, player2 |-> 0]]

InitUi == [menu |-> TRUE, lobby |-> FALSE, hideTimer |-> FALSE,
           answerSection |-> FALSE, joinSection |-> FALSE]

InitSim == [bullets |-> 0, respawnTimers |-> 0, lastPlayerUpdateTime |-> 0,
            remotePlayerState |-> [position |-> 0],
            trees |-> << >>, collidables |-> << >>,
            decorationPositions |-> decorationPositions]

InitSeen == [declared |-> 0, deathsSent |-> 0, deathsReceived |-> 0,
             handshake |-> FALSE, malformed |-> FALSE, recovered |-> FALSE,
             timedOut |-> FALSE, terminal |-> FALSE, closedInMatch |-> FALSE,
             cancelled |-> 0, sinceUpdate |-> 0, lastGap |-> -1,
             strayUpdate |-> FALSE, opened |-> FALSE]

NoProbe == [phase |-> "off"]

Init ==
  /\ web = [p \in Peers |-> WebRTCManager]
  /\ game = [p \in Peers |-> GameState]
  /\ sim = [p \in Peers |-> InitSim]
  /\ cutscene = [p \in Peers |-> CutsceneManager]
  /\ ui = [p \in Peers |-> InitUi]
  /\ chan = [p \in Peers |-> << >>]
  /\ seen = [p \in Peers |-> InitSeen]
  /\ probe = NoProbe

\* ------------------------------------------------- the path between peers
\* both live transports hold each other's description
Negotiated ==
  /\ web[HOST].peerConnection = "open"
  /\ web[CLIENT].peerConnection = "open"
  /\ web[HOST].remote # 0
  /\ web[HOST].remote = web[CLIENT].epoch
  /\ web[CLIENT].remote = web[HOST].epoch

\* p's live transport holds the description of a transport that holds p's
Linked(p) ==
  /\ web[p].peerConnection = "open"
  /\ web[p].local
  /\ web[p].remote = Elsewhere \/ Negotiated

\* frames written by the other side reach peer q's channel
Reaches(q) == Negotiated /\ web[q].dataChannel # "closed"

\* write back the world of peer p after a handler; inbox is what is left of
\* p's inbound queue
Commit(p, w, inbox) ==
  /\ web' = [web EXCEPT ![p] = w.web]
  /\ game' = [game EXCEPT ![p] = w.game]
  /\ sim' = [sim EXCEPT ![p] = w.sim]
  /\ cutscene' = [cutscene EXCEPT ![p] = w.cs]
  /\ ui' = [ui EXCEPT ![p] = w.ui]
  /\ seen' = [seen EXCEPT ![p] = w.seen]
  /\ Len(chan[Other(p)]) + Len(w.out) <= MaxQueue
  /\ chan' = [q \in Peers |->
               IF q = p THEN inbox
               ELSE IF Reaches(q) THEN chan[q] \o w.out ELSE chan[q]]
  /\ probe' = probe

\* a handler that closes p's transport: frames in flight either way are lost
Teardown(p, w) ==
  /\ web' = [web EXCEPT ![p] = w.web]
  /\ game' = [game EXCEPT ![p] = w.game]
  /\ sim' = [sim EXCEPT ![p] = w.sim]
  /\ cutscene' = [cutscene EXCEPT ![p] = w.cs]
  /\ ui' = [ui EXCEPT ![p] = w.ui]
  /\ seen' = [seen EXCEPT ![p] = w.seen]
  /\ chan' = [q \in Peers |-> << >>]
  /\ probe' = probe

\* a handler that does not read the inbound queue
Run(p, w) == Commit(p, w, chan[p])


\* the damage one blast can deal to a tank: explosionMaxDamage * (1 - d/r)
BlastDamage == {0, explosionMaxDamage}

ScoreSum(g) == g.player1.score + g.player2.score

\* ------------------------------------------------- menu
\* menuManager 'host' listener, which ends in webrtcManager.startHost()
onHost(w, mode) ==
  startHost([w EXCEPT !.game.gameMode = mode,
                      !.game.winThreshold = getWinThreshold(mode),
                      !.game.role = ROLES.HOST,
                      !.game.isMultiplayer = TRUE,
                      !.game.player1.username = getPlayerData(w.me).username,
                      !.game.player1.color = getPlayerData(w.me).color,
                      !.ui.menu = FALSE])

\* menuManager 'join' listener, which ends in webrtcManager.startJoin()
onJoin(w) ==
  startJoin([w EXCEPT !.game.role = ROLES.CLIENT,
                      !.game.isMultiplayer = TRUE,
                      !.game.player2.username = getPlayerData(w.me).username,
                      !.game.player2.color = getPlayerData(w.me).color,
                      !.ui.menu = FALSE])

\* the Initiator's page: "Host" with a mode picked
MenuHost(mode) ==
  /\ ui[HOST].menu
  /\ Run(HOST, onHost(World(HOST, 0), mode))

\* the Responder's page: "Join"
MenuJoin ==
  /\ ui[CLIENT].menu
  /\ Run(CLIENT, onJoin(World(CLIENT, 0)))

\* ------------------------------------------------- negotiation
\* the description a page's lobby currently shows for copying
Shown(p) ==
  IF web[p].shown # 0 /\ web[p].shown = web[p].epoch
     /\ web[p].peerConnection = "open"
  THEN {Description(IF web[p].role = ROLES.HOST THEN "offer" ELSE "answer",
                    web[p].shown)}
  ELSE {}

\* the transport resolves createOffer / createAnswer of a suspended function
Described(p) ==
  \E k \in web[p].waits :
    /\ k.stage = "describe"
    /\ Run(p, described(World(p, 0), k))

\* the transport of a suspended function reports gathering 'complete'
GatherComplete(p) ==
  \E k \in web[p].waits :
    /\ k.stage = "gather"
    /\ k.pc = web[p].epoch /\ web[p].peerConnection = "open"
    /\ Run(p, checkState(World(p, 0), k))

\* the 10 s timer of a gathering wait fires
GatherTimer(p) ==
  \E k \in web[p].waits :
    /\ k.timer
    /\ Run(p, gatheringTimeout(World(p, 0), k))

\* the Responder submits what is in the offer input
OfferSubmit(offerJSON) ==
  /\ ui[CLIENT].lobby /\ ui[CLIENT].joinSection
  /\ Run(CLIENT, handleOfferSubmit(World(CLIENT, 0), offerJSON))

\* the Initiator submits what is in the answer input
AnswerSubmit(answerJSON) ==
  /\ ui[HOST].lobby /\ ui[HOST].answerSection
  /\ Run(HOST, handleAnswerSubmit(World(HOST, 0), answerJSON))

\* each side pastes what the other side shows, once its manager is idle
HonestOffer ==
  /\ \A k \in web[CLIENT].waits : k.stage = "done"
  /\ \E offerJSON \in Shown(HOST) : OfferSubmit(offerJSON)

HonestAnswer ==
  /\ web[CLIENT].remote = web[HOST].epoch
  /\ \E answerJSON \in Shown(CLIENT) : AnswerSubmit(answerJSON)

\* ------------------------------------------------- transport events
\* peerConnection.onconnectionstatechange with connectionState 'connected'
PcConnected(p) ==
  /\ Linked(p)
  /\ web[p].connectionState \in {"new", "disconnected"}
  /\ LET w == World(p, 0)
     IN Run(p, onconnectionstatechange([w EXCEPT !.web.connectionState = "connected"]))

\* ... with connectionState 'disconnected' or 'failed'
PcDown(p, st) ==
  /\ web[p].peerConnection = "open"
  /\ web[p].remote # 0
  /\ \/ st = "disconnected" /\ web[p].connectionState = "connected"
     \/ st = "failed" /\ web[p].connectionState \in {"new", "connected", "disconnected"}
  /\ LET w == World(p, 0)
     IN Run(p, onconnectionstatechange([w EXCEPT !.web.connectionState = st]))

\* peerConnection.ondatachannel on the Responder
OnDataChannel ==
  /\ Linked(CLIENT)
  /\ web[CLIENT].dataChannel = Null
  /\ LET w == World(CLIENT, 0)
     IN Run(CLIENT, [w EXCEPT !.web.dataChannel = "connecting"])

\* dataChannel.onopen
DcOpen(p) ==
  /\ web[p].dataChannel = "connecting"
  /\ Linked(p)
  /\ web[p].connectionState \notin {"failed", "disconnected"}
  /\ \E ts \in Timestamps :
       LET w == World(p, ts)
       IN Run(p, dataChannelOnOpen([w EXCEPT !.web.dataChannel = "open"]))

\* dataChannel.onclose
DcClose(p) ==
  /\ web[p].dataChannel \in {"connecting", "open"}
  /\ web[p].remote # 0
  /\ LET w == World(p, 0)
     IN Commit(p, dataChannelOnClose([w EXCEPT !.web.dataChannel = "closed"]), << >>)

\* dataChannel.onmessage for the next frame in channel order
Deliver(p) ==
  /\ web[p].dataChannel = "open"
  /\ chan[p] # << >>
  /\ \E ts \in Timestamps :
       Commit(p, onmessage(World(p, ts), Head(chan[p])), Tail(chan[p]))

\* ------------------------------------------------- timers and buttons
ConnTimeout(p) ==
  /\ web[p].connectionTimeout
  /\ Run(p, connectionTimeoutFired(World(p, 0)))

\* a connect timer that its handle no longer names
StaleTimeout(p) ==
  /\ web[p].stale > 0
  /\ Run(p, staleTimeoutFired(World(p, 0)))

\* the 1 s timer of onConnectionEstablished
HideLobby(p) ==
  /\ ui[p].hideTimer
  /\ LET w == World(p, 0)
     IN Run(p, [w EXCEPT !.ui.hideTimer = FALSE, !.ui.lobby = FALSE])

\* the lobby's cancel button
Cancel(p) ==
  /\ ui[p].lobby
  /\ Teardown(p, cancelConnection(World(p, 0)))

\* ------------------------------------------------- simulation
\* KeyE -> shoot()
Shoot(p) ==
  /\ game[p].gameStarted /\ ~game[p].isControlsLocked
  /\ game[p].localPlayer # Null
  /\ sim[p].bullets < MaxBullets
  /\ ScoreSum(game[p]) < MaxScore
  /\ \E ts \in Timestamps :
       LET w == World(p, ts)
           w1 == [w EXCEPT !.sim.bullets = @ + 1]
       IN Run(p, IF Networked(w1.game)
                 THEN Send(w1, MsgType("BULLET_SPAWN"), [position |-> 0, direction |-> 0])
                 ELSE w1)

\* the trees one blast may reach: none, or one of those still collidable
Blasted(p) ==
  {{}} \cup {{sim[p].collidables[i]} : i \in 1..Len(sim[p].collidables)}

\* a local bullet hits something: createExplosion(point, true)
Explode(p, d1, d2, hit) ==
  /\ sim[p].bullets > 0
  /\ \E ts \in Timestamps :
       LET w == World(p, ts)
       IN Run(p, checkExplosionDamage([w EXCEPT !.sim.bullets = @ - 1],
                                      d1, d2, hit))

\* the 2 s timer of handleLocalDeath
RespawnTimer(p) ==
  /\ sim[p].respawnTimers > 0
  /\ LET w == World(p, 0)
     IN Run(p, respawnLocalPlayer([w EXCEPT !.sim.respawnTimers = @ - 1]))

sendPlayerUpdate(w) ==
  IF ~w.game.isMultiplayer \/ w.game.isTestMode THEN w
  ELSE IF w.game.localPlayer = Null THEN Throw(w)
  ELSE IF ~Player(w.game, w.game.localPlayer).tank THEN w
  ELSE Send(w, MsgType("PLAYER_UPDATE"),
            [position |-> spawn[w.game.localPlayer]])

animate_NoReset(w, delta) ==
  IF w.game.isMultiplayer /\ ~w.game.isTestMode /\ w.game.gameStarted
  THEN LET t == w.sim.lastPlayerUpdateTime + delta
           w1 == [w EXCEPT !.sim.lastPlayerUpdateTime = t]
       IN IF t >= playerUpdateInterval THEN sendPlayerUpdate(w1) ELSE w1
  ELSE w

\* the replication part of one animation frame that took delta milliseconds
animate(w, delta) ==
  IF w.game.isMultiplayer /\ ~w.game.isTestMode /\ w.game.gameStarted
  THEN LET t == w.sim.lastPlayerUpdateTime + delta
           w1 == [w EXCEPT !.sim.lastPlayerUpdateTime = t]
       IN IF t >= playerUpdateInterval
          THEN LET w2 == sendPlayerUpdate(w1)
               IN IF w2.thrown THEN w2
                  ELSE [w2 EXCEPT !.sim.lastPlayerUpdateTime = 0]
          ELSE w1
  ELSE w

\* what clock.getDelta() may return, in milliseconds
Deltas == {8, 16, 33, playerUpdateInterval, 120}

\* the frame time since the last player_update was written, as far as it
\* matters
Elapsed(w, delta) ==
  IF w.seen.sinceUpdate + delta >= playerUpdateInterval
  THEN playerUpdateInterval ELSE w.seen.sinceUpdate + delta

\* an observer of animate: the frame time between the updates it writes
observed(w, r, delta) ==
  IF r.out = << >>
  THEN [r EXCEPT !.seen.sinceUpdate = Elapsed(w, delta)]
  ELSE [r EXCEPT !.seen.sinceUpdate = 0,
                 !.seen.lastGap = Elapsed(w, delta),
                 !.seen.strayUpdate =
                    @ \/ ~(Networked(w.game) /\ w.game.gameStarted)]

\* requestAnimationFrame calls animate
AnimateFrame(p, delta) ==
  \E ts \in Timestamps :
    LET w == World(p, ts)
    IN Run(p, observed(w, animate(w, delta), delta))

\* an animation frame on which the replication interval has elapsed
Animate(p) ==
  /\ Networked(game[p]) /\ game[p].gameStarted
  /\ \E ts \in Timestamps : Run(p, sendPlayerUpdate(World(p, ts)))

\* the cutscene sequence ends: window.location.reload()
Reload(p) ==
  /\ cutscene[p].isPlaying \/ cutscene[p].reload
  /\ web' = [web EXCEPT ![p] = [WebRTCManager EXCEPT !.epoch = web[p].epoch]]
  /\ game' = [game EXCEPT ![p] = GameState]
  /\ sim' = [sim EXCEPT ![p] = InitSim]
  /\ cutscene' = [cutscene EXCEPT ![p] = CutsceneManager]
  /\ ui' = [ui EXCEPT ![p] = InitUi]
  /\ seen' = [seen EXCEPT ![p] = InitSeen]
  /\ chan' = [q \in Peers |-> << >>]
  /\ probe' = probe

\* ------------------------------------------------- specifications
\* page p has created fewer than n transports so far
Budget(p, n) == web[p].epoch < n

\* Getting the two transports connected: the lobby of both pages
Negotiation ==
  \/ \E mode \in Modes : Budget(HOST, MaxSessions) /\ MenuHost(mode)
  \/ Budget(CLIENT, MaxSessions) /\ MenuJoin
  \/ \E p \in Peers : Described(p)
  \/ \E p \in Peers : GatherComplete(p)
  \/ Budget(CLIENT, MaxSessions) /\ HonestOffer
  \/ HonestAnswer
  \/ OnDataChannel
  \/ \E p \in Peers : DcOpen(p)

\* The simulation of one page
Simulation ==
  \/ \E p \in Peers : Shoot(p)
  \/ \E p \in Peers, d1 \in BlastDamage, d2 \in BlastDamage :
       \E hit \in Blasted(p) : Explode(p, d1, d2, hit)
  \/ \E p \in Peers : RespawnTimer(p)
  \/ \E p \in Peers : Reload(p)

\* The match: two pages, one hosting and one joining, connected by the channel
Next ==
  \/ Negotiation
  \/ \E p \in Peers : Deliver(p)
  \/ \E p \in Peers : DcClose(p)
  \/ \E p \in Peers : Animate(p)
  \/ Simulation

Spec == Init /\ [][Next]_vars

\* The session: every transport, channel, timer and button event of the lobby,
\* with the frames of the handshake flowing; nothing is simulated
SessionNext ==
  \/ Negotiation
  \/ \E p \in Peers : Deliver(p)
  \/ \E p \in Peers : DcClose(p)
  \/ \E p \in Peers : PcConnected(p)
  \/ \E p \in Peers, st \in {"disconnected", "failed"} : PcDown(p, st)
  \/ \E p \in Peers : ConnTimeout(p)
  \/ \E p \in Peers : HideLobby(p)
  \/ \E p \in Peers : Cancel(p)

SpecSession == Init /\ [][SessionNext]_vars

\* The lobby of one page, the other side being a page elsewhere: every
\* button, input, timer and transport event, in any order
Alone(p) ==
  /\ web[Other(p)] = WebRTCManager
  /\ ui[Other(p)] = InitUi

Pasted ==
  {Empty, NotJson, NotDescription,
   Description("offer", Elsewhere), Description("answer", Elsewhere)}

LobbyNext ==
  \/ \E mode \in Modes :
       Alone(HOST) /\ Budget(HOST, MaxTransports) /\ MenuHost(mode)
  \/ Alone(CLIENT) /\ Budget(CLIENT, MaxTransports) /\ MenuJoin
  \/ \E offerJSON \in Pasted :
       Alone(CLIENT) /\ Budget(CLIENT, MaxTransports) /\ OfferSubmit(offerJSON)
  \/ \E answerJSON \in Pasted : Alone(HOST) /\ AnswerSubmit(answerJSON)
  \/ Alone(CLIENT) /\ OnDataChannel
  \/ \E p \in Peers : Alone(p) /\ Described(p)
  \/ \E p \in Peers : Alone(p) /\ GatherComplete(p)
  \/ \E p \in Peers : Alone(p) /\ GatherTimer(p)
  \/ \E p \in Peers : Alone(p) /\ PcConnected(p)
  \/ \E p \in Peers, st \in {"disconnected", "failed"} :
       Alone(p) /\ PcDown(p, st)
  \/ \E p \in Peers : Alone(p) /\ DcOpen(p)
  \/ \E p \in Peers : Alone(p) /\ DcClose(p)
  \/ \E p \in Peers : Alone(p) /\ ConnTimeout(p)
  \/ \E p \in Peers : Alone(p) /\ StaleTimeout(p)
  \/ \E p \in Peers : Alone(p) /\ HideLobby(p)
  \/ \E p \in Peers : Alone(p) /\ Cancel(p)

SpecLobby == Init /\ [][LobbyNext]_vars

\* ... where a timer that is armed fires in the end
SpecLobbyTimers ==
  SpecLobby /\ \A p \in Peers : WF_vars(Alone(p) /\ GatherTimer(p))

\* ------------------------------------------------- one page, any remote
\* a page as the constructors leave it
Fresh(p) ==
  [me |-> p, ts |-> 0, web |-> WebRTCManager, game |-> GameState,
   sim |-> InitSim, cs |-> CutsceneManager, ui |-> InitUi, seen |-> InitSeen,
   out |-> <<>>, ev |-> <<>>, thrown |-> FALSE, caught |-> FALSE, ret |-> TRUE]

\* the one suspended function of w runs on to the end of its gathering wait
Gathered(w) ==
  LET w1 == described(w, CHOOSE k \in w.web.waits : TRUE)
  IN checkState(w1, CHOOSE k \in w1.web.waits : TRUE)

\* the page of peer p once its lobby has run and its channel has opened
Established(p, mode) ==
  IF p = HOST
  THEN LET w1 == Gathered(onHost(Fresh(HOST), mode))
           w2 == handleAnswerSubmit(w1, Description("answer", Elsewhere))
       IN dataChannelOnOpen([w2 EXCEPT !.web.dataChannel = "open"])
  ELSE LET w1 == handleOfferSubmit(onJoin(Fresh(CLIENT)),
                                   Description("offer", Elsewhere))
           w2 == Gathered(w1)
       IN dataChannelOnOpen([w2 EXCEPT !.web.dataChannel = "open"])

\* ------------------------------------------------- two pages on their maps
\* randInt(15, 20) trees, scaled down; randFloat(-225, 225) places
TreeCounts == {MaxTrees - 1, MaxTrees}
Places == {1, 2}

\* the page w0 once it has hosted / joined against the other page's first
\* transport and its channel has opened
Meeting(w0, mode) ==
  IF w0.me = HOST
  THEN LET w1 == Gathered(onHost(w0, mode))
           w2 == handleAnswerSubmit(w1, Description("answer", 1))
       IN dataChannelOnOpen([w2 EXCEPT !.web.dataChannel = "open"])
  ELSE LET w1 == handleOfferSubmit(onJoin(w0), Description("offer", 1))
           w2 == Gathered(w1)
       IN dataChannelOnOpen([w2 EXCEPT !.web.dataChannel = "open"])

\* both pages have loaded their trees, have met, and their channels have
\* just opened: the frames of the 'connected' listeners are in flight
InitMap ==
  \E mode \in Modes, n \in [Peers -> TreeCounts], x \in [Peers -> Places] :
    LET w == [p \in Peers |->
                Meeting(treesLoaded(Fresh(p), n[p], x[p]), mode)]
    IN /\ web = [p \in Peers |-> w[p].web]
       /\ game = [p \in Peers |-> w[p].game]
       /\ sim = [p \in Peers |-> w[p].sim]
       /\ cutscene = [p \in Peers |-> w[p].cs]
       /\ ui = [p \in Peers |-> w[p].ui]
       /\ chan = [p \in Peers |-> w[Other(p)].out]
       /\ seen = [p \in Peers |-> w[p].seen]
       /\ probe = NoProbe

\* frames are delivered, shells are fired and burst away from the tanks
MapNext ==
  \/ \E p \in Peers : Deliver(p)
  \/ \E p \in Peers : Shoot(p)
  \/ \E p \in Peers : \E hit \in Blasted(p) : Explode(p, 0, 0, hit)

SpecMap == InitMap /\ [][MapNext]_vars

\* what the damage field of a damage frame may carry
FrameDamage == {30, explosionMaxDamage}

PlayerKeys == {"player1", "player2"}

DamageData == [damage : FrameDamage, target : PlayerKeys]

\* the payloads a remote page may put on the wire, by type
Messages ==
  {[type |-> MsgType("PLAYER_INFO"), data |-> getPlayerData(HOST)],
   [type |-> MsgType("READY"), data |-> EmptyObject],
   [type |-> MsgType("PLAYER_UPDATE"), data |-> [position |-> 0]],
   [type |-> MsgType("BULLET_SPAWN"), data |-> [position |-> 0, direction |-> 0]],
   [type |-> MsgType("DEATH"), data |-> EmptyObject],
   [type |-> MsgType("ROUND_END"), data |-> EmptyObject],
   [type |-> "bogus", data |-> EmptyObject]}
  \cup {[type |-> MsgType("GAME_START"),
         data |-> [mode |-> m, mapData |-> decorationPositions]] : m \in Modes}
  \cup {[type |-> MsgType("DAMAGE"), data |-> d] : d \in DamageData}

Frames ==
  {JSONstringify(Envelope(m.type, m.data, ts)) : m \in Messages, ts \in Timestamps}
  \cup {Garbage}

IsType(raw, key) == ~ParseThrows(raw) /\ TypeOf(JSONparse(raw)) = MsgType(key)

InitOpen ==
  \E p \in Peers, mode \in Modes :
    LET w == Established(p, mode)
    IN /\ web = [q \in Peers |-> IF q = p THEN w.web ELSE WebRTCManager]
       /\ game = [q \in Peers |-> IF q = p THEN w.game ELSE GameState]
       /\ sim = [q \in Peers |-> InitSim]
       /\ cutscene = [q \in Peers |-> CutsceneManager]
       /\ ui = [q \in Peers |-> IF q = p THEN w.ui ELSE InitUi]
       /\ chan = [q \in Peers |-> << >>]
       /\ seen = [q \in Peers |-> InitSeen]
       /\ probe = NoProbe

\* dataChannel.onmessage for a frame the remote page has written
Arrive(p, raw) ==
  /\ web[p].dataChannel = "open"
  /\ raw \in Frames
  /\ (IsType(raw, "DEATH") \/ IsType(raw, "DAMAGE")) =>
        seen[p].declared + seen[p].deathsReceived < MaxScore
  /\ \E ts \in Timestamps : Run(p, onmessage(World(p, ts), raw))

OpenNext ==
  \/ \E p \in Peers, raw \in Frames : Arrive(p, raw)
  \/ Simulation

\* One page with its channel open: the match is started by the remote page
\* and animation frames of any length follow; the channel may close
StartFrames == {raw \in Frames : IsType(raw, "GAME_START")}

TickNext ==
  \/ \E p \in Peers, raw \in StartFrames : Arrive(p, raw)
  \/ \E p \in Peers, delta \in Deltas : AnimateFrame(p, delta)
  \/ \E p \in Peers : DcClose(p)

SpecTick == InitOpen /\ [][TickNext]_vars

SpecOpen == InitOpen /\ [][OpenNext]_vars

\* The same page, whose remote page announces the match once: onConnected
\* runs once per opened channel, so game_start arrives before the match only
PlayNext ==
  \/ \E p \in Peers, raw \in Frames :
       /\ IsType(raw, "GAME_START") => ~game[p].gameStarted
       /\ Arrive(p, raw)
  \/ Simulation

SpecPlay == InitOpen /\ [][PlayNext]_vars

\* The same page, whose final cutscene may also be skipped or fail
SequenceFails(p) ==
  /\ cutscene[p].isPlaying
  /\ Run(p, sequenceFailed(World(p, 0)))

Skip(p) ==
  /\ cutscene[p].isPlaying
  /\ Run(p, skip(World(p, 0)))

EndingNext ==
  \/ OpenNext
  \/ \E p \in Peers : SequenceFails(p)
  \/ \E p \in Peers : Skip(p)

SpecEnding == InitOpen /\ [][EndingNext]_vars

\* ------------------------------------------------- send, call by call
\* the session states send can be called in: isConnected is set by onopen
\* only, and cleared by whatever drops the channel handle
SendStates ==
  {m \in [isConnected : BOOLEAN, dataChannel : {Null, "connecting", "open", "closed"}] :
     m.isConnected => m.dataChannel \in {"open", "closed"}}

SendTypes == {MSG_TYPES[k] : k \in DOMAIN MSG_TYPES} \cup {Undefined}

SendData == {EmptyObject, [damage |-> 30, target |-> "player2"]}

InitSend ==
  /\ web = [p \in Peers |-> WebRTCManager]
  /\ game = [p \in Peers |-> GameState]
  /\ sim = [p \in Peers |-> InitSim]
  /\ cutscene = [p \in Peers |-> CutsceneManager]
  /\ ui = [p \in Peers |-> InitUi]
  /\ chan = [p \in Peers |-> << >>]
  /\ seen = [p \in Peers |-> InitSeen]
  /\ \E m \in SendStates, type \in SendTypes, data \in SendData, ts \in Timestamps :
       probe = [phase |-> "call",
                web |-> [WebRTCManager EXCEPT !.isConnected = m.isConnected,
                                              !.dataChannel = m.dataChannel],
                type |-> type, data |-> data, ts |-> ts]

\* webrtcManager.send(type, data) on the probed manager
CallSend ==
  /\ probe.phase = "call"
  /\ LET w == [Fresh(HOST) EXCEPT !.web = probe.web, !.ts = probe.ts]
         r == send(w, probe.type, probe.data)
     IN probe' = [phase |-> "returned", web |-> probe.web, type |-> probe.type,
                  data |-> probe.data, ts |-> probe.ts,
                  after |-> r.web, out |-> r.out, ret |-> r.ret,
                  thrown |-> r.thrown]
  /\ UNCHANGED <<web, game, sim, cutscene, ui, chan, seen>>

SendNext == CallSend

SpecSend == InitSend /\ [][SendNext]_vars

\* ------------------------------------------------- signaling codecs
\* the descriptions a transport produces: {type, sdp}
Descriptions ==
  {Description(type, e) : type \in {"offer", "answer"}, e \in 1..Elsewhere}

\* a JavaScript string value, and the value null
Str(chars) == [string |-> chars]
JsNull == [null |-> TRUE]

\* codes generateCode can return (six characters of A-Z0-9)
Codes == {Str("A1B2C3"), Str("ZZZZZZ")}

StoreKeys == {[kind |-> k, code |-> c] : k \in {"offer", "answer"}, c \in Codes}

\* localStorage.getItem gives null for a key that was never set
getItem(store, key) == IF key \in DOMAIN store THEN store[key] ELSE JsNull

setItem(store, key, text) ==
  [k \in DOMAIN store \cup {key} |-> IF k = key THEN text ELSE store[k]]

\* encodeOffer: the offer is stored under offer_<code>, the code returned
encodeOffer(store, offer, code) ==
  [store |-> setItem(store, [kind |-> "offer", code |-> code], JSONstringify(offer)),
   code |-> code]

decodeOffer(store, code) ==
  LET stored == getItem(store, [kind |-> "offer", code |-> code])
  IN IF stored = JsNull THEN JsNull
     ELSE IF ParseThrows(stored) THEN JsNull ELSE JSONparse(stored)

encodeAnswer(store, answer, code) ==
  [store |-> setItem(store, [kind |-> "answer", code |-> code], JSONstringify(answer)),
   code |-> code]

decodeAnswer(store, code) ==
  LET stored == getItem(store, [kind |-> "answer", code |-> code])
  IN IF stored = JsNull THEN JsNull
     ELSE IF ParseThrows(stored) THEN JsNull ELSE JSONparse(stored)

\* the first six letters and digits of btoa(jsonString): the text of a
\* description starts with {"type": whose base64 starts with eyJ0eXBl
btoaHead(jsonString) ==
  IF ~ParseThrows(jsonString) /\ "type" \in DOMAIN JSONparse(jsonString)
  THEN Str("eyJ0eX") ELSE Str("")

toUpperCase(str) == IF str = Str("eyJ0eX") THEN Str("EYJ0EX") ELSE str

padEnd(str) == IF str = Str("") THEN Str("000000") ELSE str

encodeToCode(jsonString) == padEnd(toUpperCase(btoaHead(jsonString)))

\* the placeholder returns its argument
decodeFromCode(code) == code

\* One description taken through one encode/decode pair; localStorage may
\* hold entries of earlier exchanges
Stale == JSONstringify(Description("offer", Elsewhere))

InitCodec ==
  /\ web = [p \in Peers |-> WebRTCManager]
  /\ game = [p \in Peers |-> GameState]
  /\ sim = [p \in Peers |-> InitSim]
  /\ cutscene = [p \in Peers |-> CutsceneManager]
  /\ ui = [p \in Peers |-> InitUi]
  /\ chan = [p \in Peers |-> << >>]
  /\ seen = [p \in Peers |-> InitSeen]
  /\ \E d \in Descriptions, old \in SUBSET StoreKeys :
       probe = [phase |-> "call", pair |-> "none", d |-> d,
                store |-> [k \in old |-> Stale], wire |-> JsNull,
                result |-> JsNull]

Encoded(pair, store, wire) ==
  /\ probe.phase = "call"
  /\ probe' = [probe EXCEPT !.phase = "encoded", !.pair = pair,
                            !.store = store, !.wire = wire]
  /\ UNCHANGED <<web, game, sim, cutscene, ui, chan, seen>>

Decoded(pair, result) ==
  /\ probe.phase = "encoded" /\ probe.pair = pair
  /\ probe' = [probe EXCEPT !.phase = "decoded", !.result = result]
  /\ UNCHANGED <<web, game, sim, cutscene, ui, chan, seen>>

\* startHost and handleOfferSubmit show JSON.stringify(localDescription)
ShowJson == Encoded("json", probe.store, JSONstringify(probe.d))

\* handleOfferSubmit and handleAnswerSubmit JSON.parse the pasted text
ParseJson ==
  /\ probe.phase = "encoded" /\ probe.pair = "json"
  /\ ~ParseThrows(probe.wire)
  /\ Decoded("json", JSONparse(probe.wire))

EncodeOffer(code) ==
  /\ probe.d.type = "offer"
  /\ LET r == encodeOffer(probe.store, probe.d, code)
     IN Encoded("offer", r.store, r.code)

DecodeOffer == Decoded("offer", decodeOffer(probe.store, probe.wire))

EncodeAnswer(code) ==
  /\ probe.d.type = "answer"
  /\ LET r == encodeAnswer(probe.store, probe.d, code)
     IN Encoded("answer", r.store, r.code)

DecodeAnswer == Decoded("answer", decodeAnswer(probe.store, probe.wire))

EncodeToCode == Encoded("code", probe.store, encodeToCode(JSONstringify(probe.d)))

DecodeFromCode == Decoded("code", decodeFromCode(probe.wire))

CodecNext ==
  \/ ShowJson
  \/ ParseJson
  \/ \E code \in Codes : EncodeOffer(code)
  \/ DecodeOffer
  \/ \E code \in Codes : EncodeAnswer(code)
  \/ DecodeAnswer
  \/ EncodeToCode
  \/ DecodeFromCode

SpecCodec == InitCodec /\ [][CodecNext]_vars

\* ------------------------------------------------- relay credentials
MaxRequests == 3    \* requests the endpoint serves in one run

\* process.env.METERED_API_KEY: unset, set to the empty string, or set
ApiKeys == {Undefined, "", "key"}

\* a body on which apiResponse.json() rejects
NoJson == [throws |-> TRUE]

\* what the upstream call does: fetch rejects, the response is not ok, the
\* response is ok but its body is no JSON, or it is ok with a server list
Upstreams ==
  {[fetch |-> "rejects"], [fetch |-> "resolves", ok |-> FALSE],
   [fetch |-> "resolves", ok |-> TRUE, json |-> NoJson],
   [fetch |-> "resolves", ok |-> TRUE, json |-> [array |-> << >>]],
   [fetch |-> "resolves", ok |-> TRUE, json |-> [array |-> <<"turn:relay">>]]}

\* response.status(code).json(body)
Respond(code, body) == [at |-> "responded", status |-> code, body |-> body]

\* the handler up to its await of fetch
handlerStart(apiKey) ==
  IF apiKey \in {Undefined, ""}
  THEN Respond(500, [error |-> "API key not configured on server"])
  ELSE [at |-> "fetching"]

handlerResume_IgnoresOk(upstream) ==
  IF upstream.fetch = "rejects"
  THEN Respond(500, [error |-> "Failed to fetch credentials"])
  ELSE IF upstream.ok /\ upstream.json = NoJson
       THEN Respond(500, [error |-> "Failed to fetch credentials"])
       ELSE Respond(200, IF upstream.ok THEN upstream.json ELSE [array |-> << >>])

\* the handler from the settling of fetch on: the try block and its catch
handlerResume(upstream) ==
  IF upstream.fetch = "rejects"
  THEN Respond(500, [error |-> "Failed to fetch credentials"])
  ELSE IF ~upstream.ok
       THEN Respond(500, [error |-> "Failed to fetch credentials"])
       ELSE IF upstream.json = NoJson
            THEN Respond(500, [error |-> "Failed to fetch credentials"])
            ELSE Respond(200, upstream.json)

Idle == [at |-> "idle"]

InitEndpoint ==
  /\ web = [p \in Peers |-> WebRTCManager]
  /\ game = [p \in Peers |-> GameState]
  /\ sim = [p \in Peers |-> InitSim]
  /\ cutscene = [p \in Peers |-> CutsceneManager]
  /\ ui = [p \in Peers |-> InitUi]
  /\ chan = [p \in Peers |-> << >>]
  /\ seen = [p \in Peers |-> InitSeen]
  /\ \E apiKey \in ApiKeys :
       probe = [phase |-> "endpoint", apiKey |-> apiKey,
                requests |-> [n \in 1..MaxRequests |-> Idle]]

\* a request arrives and the handler runs to its first await or to its end
Request(n) ==
  /\ probe.phase = "endpoint"
  /\ probe.requests[n].at = "idle"
  /\ probe' = [probe EXCEPT !.requests[n] = handlerStart(probe.apiKey)]
  /\ UNCHANGED <<web, game, sim, cutscene, ui, chan, seen>>

\* the upstream call of request n settles and the handler runs to its end
UpstreamSettles(n, upstream) ==
  /\ probe.phase = "endpoint"
  /\ probe.requests[n].at = "fetching"
  /\ probe' = [probe EXCEPT !.requests[n] =
                  handlerResume(upstream) @@ [upstream |-> upstream]]
  /\ UNCHANGED <<web, game, sim, cutscene, ui, chan, seen>>

EndpointNext ==
  \/ \E n \in 1..MaxRequests : Request(n)
  \/ \E n \in 1..MaxRequests, upstream \in Upstreams : UpstreamSettles(n, upstream)

SpecEndpoint == InitEndpoint /\ [][EndpointNext]_vars

\* ------------------------------------------------- profile entry
\* text is a sequence of characters; letters and digits, and the others
Alnum == {"a", "B", "7"}
Chars == Alnum \cup {" ", "_"}

RECURSIVE Repeat(_, _)
Repeat(c, n) == IF n = 0 THEN << >> ELSE <<c>> \o Repeat(c, n - 1)

RECURSIVE trimStart(_)
trimStart(str) ==
  IF str # << >> /\ Head(str) = " " THEN trimStart(Tail(str)) ELSE str

RECURSIVE trimEnd(_)
trimEnd(str) ==
  IF str # << >> /\ str[Len(str)] = " "
  THEN trimEnd(SubSeq(str, 1, Len(str) - 1)) ELSE str

trim(str) == trimEnd(trimStart(str))

\* /^[a-zA-Z0-9]+$/.test(str)
lettersAndDigits(str) ==
  str # << >> /\ \A i \in 1..Len(str) : str[i] \in Alnum

validateUsername_NoMinimum(username) ==
  LET trimmed == trim(username)
  IN IF Len(trimmed) > 12 THEN [valid |-> FALSE, username |-> << >>]
     ELSE IF ~lettersAndDigits(trimmed) THEN [valid |-> FALSE, username |-> << >>]
     ELSE [valid |-> TRUE, username |-> trimmed]

validateUsername(username) ==
  LET trimmed == trim(username)
  IN IF Len(trimmed) < 3 THEN [valid |-> FALSE, username |-> << >>]
     ELSE IF Len(trimmed) > 12 THEN [valid |-> FALSE, username |-> << >>]
     ELSE IF ~lettersAndDigits(trimmed) THEN [valid |-> FALSE, username |-> << >>]
     ELSE [valid |-> TRUE, username |-> trimmed]

\* MenuManager: the input's text, username, color, isValid, and whether the
\* main menu and the mode selection are shown; sent is what the last
\* emitted event made game.js read with getPlayerData
MenuManager ==
  [value |-> << >>, username |-> << >>, color |-> "", isValid |-> FALSE,
   mainMenu |-> TRUE, modeSelection |-> FALSE,
   sent |-> [event |-> "none", username |-> << >>, color |-> ""]]

validateInput(menu) ==
  LET result == validateUsername(menu.value)
  IN IF ~result.valid THEN [menu EXCEPT !.isValid = FALSE]
     ELSE [menu EXCEPT !.username = result.username,
                       !.isValid = (menu.color # "")]

selectColor(menu, colorName) == validateInput([menu EXCEPT !.color = colorName])

\* what localStorage holds under tankGamePlayer: nothing, or any object
NoSave == [username |-> << >>, color |-> ""]

loadSavedData(menu, saved) ==
  IF saved.username # << >> /\ saved.color # ""
  THEN selectColor([menu EXCEPT !.value = saved.username,
                                !.username = saved.username], saved.color)
  ELSE menu

\* emit(event) followed by the game.js listener reading getPlayerData
emitMenu(menu, event) ==
  [menu EXCEPT !.sent = [event |-> event, username |-> menu.username,
                         color |-> menu.color],
               !.mainMenu = FALSE,
               !.modeSelection = IF event = "host" THEN FALSE ELSE @]

hostBtnClick(menu) ==
  IF menu.isValid THEN [menu EXCEPT !.modeSelection = TRUE] ELSE menu

joinBtnClick(menu) ==
  IF menu.isValid THEN emitMenu(menu, "join") ELSE menu

modeBtnClick(menu) == emitMenu(menu, "host")

activateTestMode(menu) ==
  LET m1 == IF menu.username = << >>
            THEN [menu EXCEPT !.value = Repeat("a", 10), !.username = Repeat("a", 10)]
            ELSE menu
      m2 == IF m1.color = "" THEN selectColor(m1, "red") ELSE m1
  IN emitMenu(validateInput(m2), "test-mode")

\* the texts a user types or pastes, or that storage holds
Texts ==
  {<< >>, <<"a", "B">>, <<"a", "B", "7">>, <<" ", "a", "B", "7", " ">>,
   <<"a", "_", "7">>, <<"a", " ", "7", "B">>, <<" ", " ">>,
   Repeat("7", 12), Repeat("B", 13)}

ColorNames == {"red", "blue"}

InitMenu ==
  /\ web = [p \in Peers |-> WebRTCManager]
  /\ game = [p \in Peers |-> GameState]
  /\ sim = [p \in Peers |-> InitSim]
  /\ cutscene = [p \in Peers |-> CutsceneManager]
  /\ ui = [p \in Peers |-> InitUi]
  /\ chan = [p \in Peers |-> << >>]
  /\ seen = [p \in Peers |-> InitSeen]
  /\ \E name \in Texts, color \in ColorNames \cup {"", "mauve"} :
       probe = [phase |-> "menu",
                menu |-> loadSavedData(MenuManager, [username |-> name, color |-> color])]

MenuStep(menu) ==
  /\ probe.phase = "menu"
  /\ probe' = [probe EXCEPT !.menu = menu]
  /\ UNCHANGED <<web, game, sim, cutscene, ui, chan, seen>>

InputEdit(text) ==
  /\ probe.menu.mainMenu
  /\ MenuStep(validateInput([probe.menu EXCEPT !.value = text]))

ColorClick(colorName) ==
  /\ probe.menu.mainMenu
  /\ MenuStep(selectColor(probe.menu, colorName))

HostClick == probe.menu.mainMenu /\ MenuStep(hostBtnClick(probe.menu))

JoinClick == probe.menu.mainMenu /\ MenuStep(joinBtnClick(probe.menu))

ModeClick == probe.menu.modeSelection /\ MenuStep(modeBtnClick(probe.menu))

HoldT == probe.menu.mainMenu /\ MenuStep(activateTestMode(probe.menu))

\* the lobby's cancel button brings the main menu back
MenuBack ==
  /\ ~probe.menu.mainMenu
  /\ probe.menu.sent.event \in {"host", "join"}
  /\ MenuStep([probe.menu EXCEPT !.mainMenu = TRUE])

MenuNext ==
  \/ \E text \in Texts : InputEdit(text)
  \/ \E colorName \in ColorNames : ColorClick(colorName)
  \/ HostClick
  \/ JoinClick
  \/ ModeClick
  \/ HoldT
  \/ MenuBack

SpecMenu == InitMenu /\ [][MenuNext]_vars

\* ------------------------------------------------- properties
\* the record a page owns: the Host player1, the Client player2
Own(p) == IF p = HOST THEN "player1" ELSE "player2"
Theirs(p) == Own(Other(p))

Health(g, key) == Player(g, key).health
Score(g, key) == Player(g, key).score

\* MatchStateMachine's Active on page p
Active(p) ==
  /\ game[p].gameStarted
  /\ game[p].localPlayer # Null
  /\ game[p].remotePlayer # Null

\* MatchStateMachine's Finished on page p
Finished(p) == game[p].isControlsLocked

\* game_start has been delivered to the Responder and ready to the Initiator
Handshaken ==
  /\ \A p \in Peers : web[p].dataChannel = "open"
  /\ seen[CLIENT].handshake
  /\ seen[HOST].handshake

\* C1: once the channel is open on both peers and game_start and ready have
\* been delivered, the Initiator and the Responder are both Active: game
\* started, local and remote PlayerRecord assigned.
C1_ActiveAfterHandshake == Handshaken => Active(HOST) /\ Active(CLIENT)

IsDamageFor(raw, key) ==
  IsType(raw, "DAMAGE") /\ JSONparse(raw).data.target = key

\* C2: a page's own health changes only in a step of its own hit detection
\* (the explosion of a local bullet), of a damage frame that targets its own
\* record, or of its own respawn (a page reload builds a new record); no
\* other frame changes it, and no step of a page changes the health it keeps
\* for the remote record.
C2_HealthAuthority ==
  [][\A p \in Peers :
       /\ Health(game'[p], Theirs(p)) = Health(game[p], Theirs(p))
       /\ Health(game'[p], Own(p)) # Health(game[p], Own(p)) =>
            \/ \E d1 \in BlastDamage, d2 \in BlastDamage :
                 \E hit \in Blasted(p) : Explode(p, d1, d2, hit)
            \/ \E raw \in Frames : IsDamageFor(raw, Own(p)) /\ Arrive(p, raw)
            \/ RespawnTimer(p)
            \/ Reload(p)]_vars

C2_Witness ==
  \E p \in Peers :
    /\ game[p].gameStarted
    /\ Health(game[p], Own(p)) = 20
    /\ Health(game[p], Theirs(p)) = maxPlayerHealth

\* C3: a damage frame {damage d, target t} handled by the owner of t sets
\* that record's health to max(0, health - d) and leaves the other record
\* alone; handled by the page that does not own t it changes no health.
C3_DamageAppliedByOwner ==
  \A p \in Peers, raw \in Frames, ts \in Timestamps :
    (web[p].dataChannel = "open" /\ IsType(raw, "DAMAGE")) =>
      LET data == JSONparse(raw).data
          after == onmessage(World(p, ts), raw).game
      IN /\ Health(after, Theirs(p)) = Health(game[p], Theirs(p))
         /\ Health(after, Own(p)) =
              IF data.target = Own(p)
              THEN Max(0, Health(game[p], Own(p)) - data.damage)
              ELSE Health(game[p], Own(p))

C3_Witness ==
  /\ Health(game[HOST], "player1") = 70
  /\ Health(game[HOST], "player2") = maxPlayerHealth
  /\ game[HOST].role = ROLES.HOST

\* the deaths page p has observed: those it declared for its own record and
\* the death frames it received
DeathsObserved(p) == seen[p].declared + seen[p].deathsReceived

\* C4: on each page player1.score + player2.score equals the number of death
\* events that page has observed.
C4_ScoreCountsDeaths ==
  \A p \in Peers : ScoreSum(game[p]) = DeathsObserved(p)

\* every death frame written so far has been handed to the other page
DeathsDelivered ==
  \A p \in Peers : seen[p].deathsSent = seen[Other(p)].deathsReceived

Scoreboard(p) == <<Score(game[p], "player1"), Score(game[p], "player2")>>

\* C5: whenever every death frame sent so far has been delivered and applied,
\* the Host's scoreboard equals the Client's.
C5_ScoreboardsAgree ==
  (Negotiated /\ DeathsDelivered) => Scoreboard(HOST) = Scoreboard(CLIENT)

\* C6: a page is Finished (controls locked, final cutscene playing) exactly
\* when the larger of the two scores has reached winThreshold, the threshold
\* is the one of the mode, and in Infinite mode the page is never Finished.
C6_FinishedIffThreshold ==
  \A p \in Peers :
    /\ Finished(p) <=>
         AtLeast(Max(Score(game[p], "player1"), Score(game[p], "player2")),
                 game[p].winThreshold)
    /\ Finished(p) => cutscene[p].isPlaying
    /\ game[p].winThreshold = getWinThreshold(game[p].gameMode)
    /\ game[p].gameMode = GAME_MODES.INFINITE => ~Finished(p)

C6_Witness ==
  \E p \in Peers :
    /\ Finished(p)
    /\ game[p].gameMode = GAME_MODES.BO3
    /\ Max(Score(game[p], "player1"), Score(game[p], "player2")) = 2

\* C7: a step that takes a connected page's own health from above 0 to 0
\* writes one death frame and adds one point to the opposing record; a step
\* that finds the own health at 0 and leaves it at 0 (damage before the
\* respawn) declares nothing and adds no point.
C7_OneDeathPerEpisode ==
  [][\A p \in Peers :
       /\ ( /\ Health(game[p], Own(p)) > 0
            /\ Health(game'[p], Own(p)) = 0
            /\ web[p].isConnected /\ web[p].dataChannel = "open" ) =>
            /\ seen'[p].deathsSent = seen[p].deathsSent + 1
            /\ Score(game'[p], Theirs(p)) = Score(game[p], Theirs(p)) + 1
       /\ ( /\ Health(game[p], Own(p)) = 0
            /\ Health(game'[p], Own(p)) = 0 ) =>
            /\ seen'[p].declared = seen[p].declared
            /\ Scoreboard(p)' = Scoreboard(p)]_vars

\* C8: send throws nothing; called on a session that is not connected or has
\* no channel it returns false, writes no frame and changes no field; called
\* on a connected session whose channel is open it writes exactly one frame,
\* whose JSON holds the type, the data and the timestamp, and returns true;
\* when the write fails (channel no longer open) it returns false.
C8_SendContract ==
  probe.phase = "returned" =>
    /\ ~probe.thrown
    /\ probe.after = probe.web
    /\ (~probe.web.isConnected \/ probe.web.dataChannel = Null) =>
         probe.ret = FALSE /\ probe.out = << >>
    /\ (probe.web.isConnected /\ probe.web.dataChannel = "open") =>
         /\ probe.ret = TRUE
         /\ Len(probe.out) = 1
         /\ ~ParseThrows(probe.out[1])
         /\ TypeOf(JSONparse(probe.out[1])) = probe.type
         /\ JSONparse(probe.out[1]).data = probe.data
         /\ JSONparse(probe.out[1]).timestamp = probe.ts
    /\ (probe.web.isConnected /\ probe.web.dataChannel \notin {Null, "open"}) =>
         probe.ret = FALSE /\ probe.out = << >>

C8_Witness ==
  /\ probe.phase = "returned"
  /\ probe.ret = TRUE
  /\ Len(probe.out) = 1
  /\ probe.type = MsgType("DAMAGE")

\* C9: a frame that is not JSON is logged and dropped: its handler emits no
\* 'message' event and writes nothing, and the game, the session fields and
\* both handles stay as they were; once such a frame has been dropped the
\* session is still connected and every frame that arrives afterwards is
\* still parsed and handed to the 'message' listener.
C9_MalformedFrameDropped ==
  \A p \in Peers :
    /\ web[p].dataChannel = "open" =>
         \A ts \in Timestamps :
           LET r == onmessage(World(p, ts), Garbage)
           IN /\ r.ev = << >> /\ r.out = << >> /\ r.caught /\ ~r.thrown
              /\ r.game = game[p] /\ r.web = web[p] /\ r.sim = sim[p]
              /\ r.cs = cutscene[p] /\ r.ui = ui[p]
    /\ seen[p].malformed =>
         /\ web[p].isConnected /\ web[p].dataChannel = "open"
         /\ web[p].peerConnection = "open"
         /\ \A raw \in Frames \ {Garbage}, ts \in Timestamps :
              LET r == onmessage(World(p, ts), raw)
              IN Head(r.ev) = "message" /\ r.seen.recovered

C9_Witness ==
  \E p \in Peers :
    /\ seen[p].malformed /\ seen[p].recovered
    /\ web[p].isConnected
    /\ game[p].gameStarted

\* C10: a session is usable (isConnected) only when the transport has
\* reported 'connected' and the channel has reported open.
C10_UsableNeedsBothSignals ==
  \A p \in Peers :
    web[p].isConnected =>
      web[p].connectionState = "connected" /\ web[p].dataChannel = "open"


\* ------------------------------------------------- teardown
\* nothing live is left behind the two handles of manager m
Released(m) ==
  /\ m.peerConnection \in {Null, "closed"}
  /\ m.dataChannel \in {Null, "closed"}
  /\ ~m.isConnected

Cancelled(p, k) == k.pc <= seen[p].cancelled

\* the timer or transport callback of the suspended function k has run
Continued(p, k) == k \in web[p].waits /\ k \notin web'[p].waits

\* C12: when a timer or continuation of a cancelled session runs, it changes
\* nothing of the manager but its own bookkeeping: no session state, no
\* timer armed, no description exposed, no lobby section shown.
C12_CancelledStaysQuiet ==
  [][\A p \in Peers : \A k \in web[p].waits :
       (Cancelled(p, k) /\ Continued(p, k)) =>
         /\ [web'[p] EXCEPT !.waits = web[p].waits] = web[p]
         /\ ui'[p] = ui[p]]_vars


\* C13: once the connect timer has expired on a session that was not
\* connected (the timeout signal was raised), that session never becomes
\* connected.
C13_TimeoutIsFinal ==
  \A p \in Peers : seen[p].timedOut => ~web[p].isConnected


\* C14: a page never has more than one transport open: a new one is only
\* created once every transport it created before has been closed.
C14_OneLiveTransport ==
  \A p \in Peers : web[p].live <= 1


\* what can be pasted that cannot be applied as an offer / as an answer
BadOffers == {NotJson, NotDescription, Description("answer", Elsewhere)}
BadAnswers == {NotJson, NotDescription, Description("offer", Elsewhere)}

\* C15: submitting a blob that cannot be applied reports an error (the catch
\* block runs) and leaves the manager and its lobby as they were: no
\* transport created, role, handles and timers unchanged.
C15_BadBlobChangesNothing ==
  /\ (ui[CLIENT].lobby /\ ui[CLIENT].joinSection) =>
       \A offerJSON \in BadOffers :
         LET w == World(CLIENT, 0)
             r == handleOfferSubmit(w, offerJSON)
         IN r.caught /\ r.web = w.web /\ r.ui = w.ui
  /\ (ui[HOST].lobby /\ ui[HOST].answerSection) =>
       \A answerJSON \in BadAnswers :
         LET w == World(HOST, 0)
             r == handleAnswerSubmit(w, answerJSON)
         IN r.caught /\ r.web = w.web /\ r.ui = w.ui


\* the gathering wait of the function suspended on transport e is unresolved
Gathering(p, e) ==
  \E k \in web[p].waits : k.pc = e /\ k.stage = "gather"

\* C16: a gathering wait always ends: its 10 s timer is armed for as long as
\* it is unresolved, and it is resolved in the end; it is resolved once (the
\* timer firing after 'complete' changes nothing); when the gathering of the
\* Initiator's current transport ends, its description is shown, the answer
\* section is shown and the connect timer is armed.
C16_GatheringEnds ==
  /\ [](\A p \in Peers : \A k \in web[p].waits : k.stage = "gather" => k.timer)
  /\ [][\A p \in Peers : \A k \in web[p].waits :
         /\ (Continued(p, k) /\ k.stage = "done") =>
              /\ [web'[p] EXCEPT !.waits = web[p].waits] = web[p]
              /\ ui'[p] = ui[p]
         /\ (Continued(p, k) /\ k.stage = "gather" /\ k.fn = "startHost"
               /\ k.pc = web[p].epoch /\ web[p].peerConnection = "open") =>
              /\ ~Gathering(p, k.pc)'
              /\ web'[p].shown = web[p].epoch
              /\ ui'[p].answerSection
              /\ web'[p].connectionTimeout]_vars
  /\ \A p \in Peers : \A e \in 1..MaxTransports :
       Gathering(p, e) ~> ~Gathering(p, e)

\* the Initiator's gathering wait has ended and its timer has fired as well
C16_Witness ==
  /\ web[HOST].waits = {} /\ web[HOST].peerConnection = "open"
  /\ web[HOST].shown = web[HOST].epoch
  /\ ui[HOST].answerSection /\ web[HOST].connectionTimeout


\* C17: every suspended negotiation step is bounded by a timer: a function
\* that waits on a transport callback has a timer armed that will end the
\* wait.
C17_EveryWaitBounded ==
  \A p \in Peers : \A k \in web[p].waits :
    k.stage \in {"describe", "gather"} => k.timer


\* C18: once the transport of a session has reported 'failed' or
\* 'disconnected', or its channel has closed, or it was cancelled, the
\* session is not connected and stays so: isConnected is false and send
\* refuses every frame.
C18_TerminalStaysDown ==
  \A p \in Peers :
    seen[p].terminal =>
      /\ ~web[p].isConnected
      /\ \A type \in SendTypes :
           ~send(World(p, 0), type, EmptyObject).ret


\* C19: once the channel has closed during a started match, the page is
\* back in its lobby: the match is no longer started and the main menu is
\* shown; and it writes no further frame.
C19_CloseEndsMatch ==
  \A p \in Peers :
    seen[p].closedInMatch =>
      /\ ~game[p].gameStarted /\ ui[p].menu
      /\ sendPlayerUpdate(World(p, 0)).out = << >>


\* C20: a player_update is written only in a started multiplayer match, at
\* most one per animation frame, and at least playerUpdateInterval of frame
\* time has accumulated since the one before it, whatever the frame times.
C20_UpdateRateLimited ==
  \A p \in Peers :
    /\ seen[p].lastGap = -1 \/ seen[p].lastGap >= playerUpdateInterval
    /\ ~seen[p].strayUpdate
    /\ \A delta \in Deltas :
         LET r == animate(World(p, 0), delta)
         IN /\ Len(r.out) <= 1
            /\ r.out # << >> =>
                 /\ Networked(game[p]) /\ game[p].gameStarted
                 /\ IsType(r.out[1], "PLAYER_UPDATE")

\* an update has been written and frame time is accumulating again
C20_Witness ==
  \E p \in Peers :
    /\ seen[p].lastGap >= playerUpdateInterval
    /\ sim[p].lastPlayerUpdateTime > 0
    /\ game[p].gameStarted


\* ------------------------------------------------- replication
\* peer p is about to be handed a frame of the given type
Inbound(p, name) ==
  /\ web[p].dataChannel = "open"
  /\ chan[p] # << >>
  /\ IsType(Head(chan[p]), name)

\* C21: after a player_update Envelope has been received, the snapshot of
\* the remote player equals the data of that Envelope, whatever it held
\* before.
C21_SnapshotLastWriteWins ==
  \A p \in Peers :
    Inbound(p, "PLAYER_UPDATE") =>
      LET raw == Head(chan[p])
          r == onmessage(World(p, 0), raw)
      IN r.sim.remotePlayerState.position = JSONparse(raw).data.position


\* ------------------------------------------------- obstacles
\* the ids of the objects in a scene list
Ids(list) == {list[i].id : i \in 1..Len(list)}

\* C22: when a peer applies a received obstacle-destroyed Envelope for id X,
\* exactly the object with id X leaves its tree list and its collidable
\* list, and no other object leaves either.
C22_ExactlyThatTree ==
  \A p \in Peers :
    Inbound(p, "TREE_DESTROYED") =>
      LET raw == Head(chan[p])
          X == JSONparse(raw).data.treeId
          r == onmessage(World(p, 0), raw)
      IN /\ Ids(r.sim.trees) = Ids(sim[p].trees) \ {X}
         /\ Ids(r.sim.collidables) = Ids(sim[p].collidables) \ {X}


\* C23: applying obstacle-destroyed for an id that is no longer in the tree
\* list changes neither the tree list nor the collidable list and raises
\* no error; so the second of two Envelopes for one id is a no-op.
C23_SecondDestructionNoOp ==
  \A p \in Peers : \A i \in 1..(MaxTrees + 1) :
    LET data == [treeId |-> TreeIds[i]]
        w == World(p, 0)
        r1 == handleRemoteTreeDestruction(w, data)
        r2 == handleRemoteTreeDestruction(r1, data)
    IN /\ r2.sim = r1.sim /\ ~r2.thrown
       /\ TreeIds[i] \notin Ids(w.sim.trees) => (r1.sim = w.sim /\ ~r1.thrown)

\* a peer has applied a destruction and still has trees: a second Envelope
\* for the removed id would find other trees only
C23_Witness ==
  \E p \in Peers :
    /\ sim[p].trees # << >>
    /\ Len(sim[p].trees) < Len(sim[p].decorationPositions.trees)
    /\ ~game[p].gameStarted


\* C24: once the Responder has applied match-start, the trees it simulates
\* and collides with are the ones of the placement list the Envelope
\* carried, ids and places alike.
C24_ResponderUsesHostLayout ==
  Inbound(CLIENT, "GAME_START") =>
    LET raw == Head(chan[CLIENT])
        mapData == JSONparse(raw).data.mapData
        r == onmessage(World(CLIENT, 0), raw)
    IN /\ r.sim.trees = mapData.trees
       /\ r.sim.collidables = mapData.trees


\* ------------------------------------------------- match configuration
\* C25: once a peer's match has started, its mode and winThreshold never
\* change; and the started Responder's mode and winThreshold are the ones
\* of the Initiator that hosts the match.
C25_MatchConfigFixed ==
  /\ [](game[CLIENT].gameStarted /\ game[HOST].role = ROLES.HOST =>
          /\ game[CLIENT].gameMode = game[HOST].gameMode
          /\ game[CLIENT].winThreshold = game[HOST].winThreshold
          /\ game[CLIENT].winThreshold = getWinThreshold(game[HOST].gameMode))
  /\ [][\A p \in Peers :
         game[p].gameStarted /\ game'[p].gameStarted =>
           /\ game'[p].gameMode = game[p].gameMode
           /\ game'[p].winThreshold = game[p].winThreshold]_vars

\* the Responder plays a match hosted as best of five
C25_Witness ==
  /\ game[CLIENT].gameStarted /\ game[HOST].role = ROLES.HOST
  /\ game[HOST].gameMode = GAME_MODES.BO5
  /\ game[CLIENT].winThreshold = Finite(3)
  /\ ScoreSum(game[CLIENT]) > 0


\* ------------------------------------------------- first Envelope
\* the Initiator's channel is about to become ready
Opening(p) ==
  /\ web[p].role = ROLES.HOST
  /\ web[p].dataChannel = "connecting"
  /\ Linked(p)
  /\ web[p].connectionState \notin {"failed", "disconnected"}

\* what dataChannel.onopen does to the page, and the Envelopes it writes
Opened(p, ts) ==
  dataChannelOnOpen([World(p, ts) EXCEPT !.web.dataChannel = "open"])

CarriesConfig(raw) ==
  /\ IsType(raw, "GAME_START")
  /\ Field(JSONparse(raw).data, "mode") = game[HOST].gameMode
  /\ Field(JSONparse(raw).data, "mapData") = sim[HOST].decorationPositions

\* C26 (as stated): the first Envelope the Initiator sends after the
\* connection becomes ready is game_start carrying the mode and the map
\* layout; no other Envelope from the Initiator precedes it.
C26_GameStartFirst ==
  Opening(HOST) =>
    \A ts \in Timestamps :
      /\ chan[CLIENT] = << >>
      /\ Opened(HOST, ts).out # << >>
      /\ CarriesConfig(Head(Opened(HOST, ts).out))

\* C26 (amended): when the connection becomes ready the Initiator sends
\* player_info and directly after it game_start carrying the mode and the
\* map layout; that one player_info is the only Envelope of the Initiator
\* that precedes game_start.
C26_GameStartSecond ==
  Opening(HOST) =>
    \A ts \in Timestamps :
      /\ chan[CLIENT] = << >>
      /\ Len(Opened(HOST, ts).out) = 2
      /\ IsType(Opened(HOST, ts).out[1], "PLAYER_INFO")
      /\ CarriesConfig(Opened(HOST, ts).out[2])

\* the Initiator's channel has just become ready and both Envelopes are
\* in flight to the Responder
C26_Witness ==
  /\ web[HOST].isConnected /\ web[HOST].role = ROLES.HOST
  /\ game[HOST].gameMode = GAME_MODES.BO3
  /\ Len(chan[CLIENT]) = 2
  /\ IsType(chan[CLIENT][1], "PLAYER_INFO")
  /\ CarriesConfig(chan[CLIENT][2])


\* ------------------------------------------------- death and respawn
\* the guard of onKeyDown (and of the mouse handlers and updatePlayer)
InputEnabled(p) == ~(game[p].isControlsLocked \/ ~game[p].gameStarted)

\* the local record has died and its respawn is pending
Dead(p) ==
  /\ game[p].gameStarted /\ game[p].localPlayer # Null
  /\ Health(game[p], Own(p)) = 0
  /\ sim[p].respawnTimers > 0

\* C27: on local death local input is disabled until the respawn; the
\* respawn resets the local record's health to the maximum and changes no
\* score and ends no match; the score increment happens at the death.
C27_DeadUntilRespawn ==
  /\ [](\A p \in Peers : Dead(p) => ~InputEnabled(p))
  /\ [][\A p \in Peers :
         /\ (Dead(p) /\ sim'[p].respawnTimers < sim[p].respawnTimers) =>
              /\ Health(game'[p], Own(p)) = maxPlayerHealth
              /\ Scoreboard(p)' = Scoreboard(p)
              /\ cutscene'[p] = cutscene[p]
         /\ (game[p].localPlayer # Null /\ ~Dead(p) /\ Dead(p)') =>
              Score(game'[p], Theirs(p)) = Score(game[p], Theirs(p)) + 1]_vars


\* ------------------------------------------------- end of the match
\* C28: a page whose final cutscene plays has its input frozen, and a page
\* whose input is frozen either still plays the cutscene or has the reload
\* pending that tears the session down and shows the menu again: however
\* the cutscene ends, the page is not left frozen with no way back.
C28_FrozenHasWayBack ==
  \A p \in Peers :
    /\ cutscene[p].isPlaying => game[p].isControlsLocked
    /\ game[p].isControlsLocked => cutscene[p].isPlaying \/ cutscene[p].reload


\* ------------------------------------------------- frames on the channel
\* C29: every frame written to the channel parses to an Envelope with
\* exactly the fields type, data and timestamp, whose type is a value of
\* MSG_TYPES (so that parsing gives back the type that was serialized).
C29_EveryFrameIsEnvelope ==
  \A p \in Peers : \A i \in 1..Len(chan[p]) :
    /\ ~ParseThrows(chan[p][i])
    /\ DOMAIN JSONparse(chan[p][i]) = {"type", "data", "timestamp"}
    /\ JSONparse(chan[p][i]).type \in {MSG_TYPES[k] : k \in DOMAIN MSG_TYPES}


\* ------------------------------------------------- signaling round trip
\* C30: for every valid description and each encode/decode pair (the JSON
\* text, the stored six-character code, encodeToCode/decodeFromCode),
\* decoding what encoding produced gives a description equal to the
\* original.
C30_SignalingRoundTrip ==
  probe.phase = "decoded" => probe.result = probe.d


\* ------------------------------------------------- profile validity
\* a username of 3 to 12 letters and digits
ValidName(str) ==
  /\ Len(str) >= 3 /\ Len(str) <= 12
  /\ \A i \in 1..Len(str) : str[i] \in Alnum

\* C31: whenever the menu has emitted 'host' or 'join', the profile read
\* for it (and sent as player_info) has a username of 3 to 12 letters and
\* digits and a non-empty colour.
C31_OnlyValidProfileLeaves ==
  (probe.phase = "menu" /\ probe.menu.sent.event \in {"host", "join"}) =>
     /\ ValidName(probe.menu.sent.username)
     /\ probe.menu.sent.color # ""

\* 'host' was emitted from the mode buttons while the input held a text
\* that is not a valid username
C31_Witness ==
  /\ probe.phase = "menu"
  /\ probe.menu.sent.event = "host"
  /\ ~validateUsername(probe.menu.value).valid
  /\ probe.menu.sent.username = <<"a", "B", "7">>


\* ------------------------------------------------- record ranges
\* C32: in every reachable state each PlayerRecord has a health within
\* 0..100 and a score that is an integer >= 0.
C32_RecordsInRange ==
  \A p \in Peers : \A key \in PlayerKeys :
    /\ Health(game[p], key) \in 0..maxPlayerHealth
    /\ Score(game[p], key) \in Nat

\* a record that took damage of 30 four times: the last hit was clamped at 0
\* and its death was declared
C32_Witness ==
  \E p \in Peers :
    /\ game[p].gameStarted /\ game[p].localPlayer # Null
    /\ Health(game[p], Own(p)) = 0
    /\ Score(game[p], Theirs(p)) = 1
    /\ seen[p].declared = 1


\* ------------------------------------------------- relay credentials
\* the upstream call of a responded request succeeded with a server list
UpstreamGood(req) ==
  /\ "upstream" \in DOMAIN req
  /\ req.upstream.fetch = "resolves" /\ req.upstream.ok
  /\ req.upstream.json # NoJson

\* the answers of the endpoint, given the body it sends for a missing key
EndpointAnswers(notConfigured) ==
  probe.phase = "endpoint" =>
    \A n \in 1..MaxRequests :
      LET req == probe.requests[n]
      IN req.at = "responded" =>
           IF probe.apiKey \in {Undefined, ""}
           THEN /\ req.status = 500
                /\ req.body = [error |-> notConfigured]
                /\ "upstream" \notin DOMAIN req
           ELSE IF UpstreamGood(req)
                THEN req.status = 200 /\ req.body = req.upstream.json
                ELSE /\ req.status = 500
                     /\ req.body = [error |-> "Failed to fetch credentials"]

\* C33 (as stated): 500 {error: "API key not configured"} without calling
\* upstream when the key is missing, 500 {error: "Failed to fetch
\* credentials"} when the upstream call fails or is not ok, 200 with the
\* upstream server list otherwise.
C33_EndpointAnswers == EndpointAnswers("API key not configured")

\* C33 (amended): as stated, but the body for a missing key is
\* {error: "API key not configured on server"}.
C33_EndpointAnswersOnServer == EndpointAnswers("API key not configured on server")

\* one request answered 200 with the relay list, another refused because
\* upstream was not ok
C33_Witness ==
  /\ probe.phase = "endpoint"
  /\ \E n, k \in 1..MaxRequests :
       /\ probe.requests[n].at = "responded" /\ probe.requests[n].status = 200
       /\ probe.requests[n].body = [array |-> <<"turn:relay">>]
       /\ probe.requests[k].at = "responded" /\ probe.requests[k].status = 500
       /\ ~UpstreamGood(probe.requests[k])


\* ------------------------------------------------- profile before start
\* C34: when the Responder applies game_start (starts the game and creates
\* the tanks), and from then on, its player1 holds the username and colour
\* of the Initiator, delivered by the player_info sent before game_start.
C34_HostProfileBeforeStart ==
  (game[CLIENT].role = ROLES.CLIENT /\
     (Inbound(CLIENT, "GAME_START") \/ game[CLIENT].gameStarted)) =>
    /\ game[CLIENT].player1.username = getPlayerData(HOST).username
    /\ game[CLIENT].player1.color = getPlayerData(HOST).color

\* the Responder is about to apply the Initiator's game_start
C34_Witness ==
  /\ game[CLIENT].role = ROLES.CLIENT /\ ~game[CLIENT].gameStarted
  /\ Inbound(CLIENT, "GAME_START")
  /\ game[CLIENT].player1.username = getPlayerData(HOST).username
  /\ onmessage(World(CLIENT, 0), Head(chan[CLIENT])).game.player1.tank


\* ------------------------------------------------- timeout after open
\* the handler run emits 'timeout'
RaisesTimeout(r) == \E i \in 1..Len(r.ev) : r.ev[i] = "timeout"

\* C35: no connect timer that is still armed raises 'timeout' when it
\* fires, once the channel of the page's session has opened ('connected'
\* was raised) or while isConnected is true.
C35_NoTimeoutAfterOpen ==
  \A p \in Peers :
    (seen[p].opened \/ web[p].isConnected) =>
      /\ web[p].connectionTimeout =>
           ~RaisesTimeout(connectionTimeoutFired(World(p, 0)))
      /\ web[p].stale > 0 =>
           ~RaisesTimeout(staleTimeoutFired(World(p, 0)))

\* ------------------------------------------------- the winner of a match
winner_LowerScore(finalScores) ==
  IF finalScores.player1 < finalScores.player2 THEN "player1" ELSE "player2"

\* runCutsceneSequence, phase 4: player1 when its score is greater
winner(finalScores) ==
  IF finalScores.player1 > finalScores.player2 THEN "player1" ELSE "player2"

OtherKey(key) == IF key = "player1" THEN "player2" ELSE "player1"

\* the step takes page p from not Finished to Finished
Finishes(p) == ~Finished(p) /\ Finished(p)'

\* C36: in the step that takes a page to Finished, the scores handed to the
\* cutscene are the page's scoreboard, one of them equals winThreshold, the
\* other is strictly smaller, and the cutscene's winner is the record at the
\* threshold.
C36_WinnerReachedThreshold ==
  [][\A p \in Peers :
       Finishes(p) =>
         LET fs == cutscene'[p].finalScores
             key == winner(fs)
         IN /\ <<fs.player1, fs.player2>> = Scoreboard(p)'
            /\ Finite(fs[key]) = game'[p].winThreshold
            /\ fs[OtherKey(key)] < fs[key]
            /\ fs.player1 # fs.player2]_vars

\* a page is Finished with a loser that has scored
C36_Witness ==
  \E p \in Peers :
    /\ Finished(p)
    /\ cutscene[p].plays = 1
    /\ cutscene[p].finalScores[OtherKey(winner(cutscene[p].finalScores))] > 0

\* ------------------------------------------------- one final cutscene
\* C37: on every page the phase sequence of the final cutscene is started at
\* most once, however often the win condition is met again afterwards.
C37_CutsceneStartedOnce ==
  \A p \in Peers : cutscene[p].plays <= 1

\* ------------------------------------------------- after the match
\* gameState.localPlayer.health of page p
LocalHealth(p) == Player(game[p], game[p].localPlayer).health

\* C38: a step of a page that is Finished before and after it changes neither
\* score nor the local health, and leaves the scoreboard equal to the final
\* scores the cutscene was given.
C38_FrozenAfterFinished ==
  [][\A p \in Peers :
       (Finished(p) /\ Finished(p)') =>
         /\ Scoreboard(p)' = Scoreboard(p)
         /\ LocalHealth(p)' = LocalHealth(p)
         /\ Scoreboard(p)' = <<cutscene'[p].finalScores.player1,
                               cutscene'[p].finalScores.player2>>]_vars

\* ------------------------------------------------- EventEmitter
\* One emitter and one event name. A listener is a function object: id tells
\* the objects apart, once marks the onceWrapper that once() builds around its
\* callback, and echo marks a callback whose first run emits the event again.
MaxListeners == 3   \* listeners registered on the emitter over its life
MaxEmits == 2       \* emit calls made from outside a listener

Callbacks == [once : BOOLEAN, echo : BOOLEAN]

\* events[event].push(callback)
on(em, callback) == [em EXCEPT !.events = Append(@, callback)]

\* events[event] = events[event].filter(cb => cb !== callback)
off(em, callback) ==
  [em EXCEPT !.events = SelectSeq(@, LAMBDA cb : cb # callback)]

RECURSIVE emit(_)
RECURSIVE forEach(_, _, _)
RECURSIVE invoke(_, _)

\* the listener runs: a plain listener is its callback; the onceWrapper runs
\* its callback and then takes itself off the list
invoke(em, listener) ==
  LET em1 == [em EXCEPT !.calls[listener.id] = @ + 1]
      em2 == IF listener.echo /\ em1.calls[listener.id] = 1 THEN emit(em1) ELSE em1
  IN IF listener.once THEN off(em2, listener) ELSE em2

\* array.forEach over the array object the emit started with
forEach(em, array, i) ==
  IF i > Len(array) THEN em
  ELSE forEach(invoke(em, array[i]), array, i + 1)

emit(em) == forEach(em, em.events, 1)

\* once(event, callback): on(event, onceWrapper)
once(em, wrapper) == on(em, wrapper)

InitEmitter ==
  /\ web = [p \in Peers |-> WebRTCManager]
  /\ game = [p \in Peers |-> GameState]
  /\ sim = [p \in Peers |-> InitSim]
  /\ cutscene = [p \in Peers |-> CutsceneManager]
  /\ ui = [p \in Peers |-> InitUi]
  /\ chan = [p \in Peers |-> << >>]
  /\ seen = [p \in Peers |-> InitSeen]
  /\ probe = [phase |-> "emitter", events |-> << >>, made |-> << >>,
              calls |-> << >>, emits |-> 0]

\* the emitter of the probe, and the probe after a call on it
Emitter == [events |-> probe.events, calls |-> probe.calls]

AfterCall(em, made, emits) ==
  [phase |-> "emitter", events |-> em.events, made |-> made,
   calls |-> em.calls, emits |-> emits]

\* the function object the next registration creates
NewListener(cb) ==
  [id |-> Len(probe.made) + 1, once |-> cb.once, echo |-> cb.echo]

\* emitter.on(event, callback) with a new callback
On(cb) ==
  /\ probe.phase = "emitter" /\ ~cb.once
  /\ Len(probe.made) < MaxListeners
  /\ LET l == NewListener(cb)
         em == [Emitter EXCEPT !.calls = Append(@, 0)]
     IN probe' = AfterCall(on(em, l), Append(probe.made, l), probe.emits)
  /\ UNCHANGED <<web, game, sim, cutscene, ui, chan, seen>>

\* emitter.once(event, callback) with a new callback
Once(cb) ==
  /\ probe.phase = "emitter" /\ cb.once
  /\ Len(probe.made) < MaxListeners
  /\ LET l == NewListener(cb)
         em == [Emitter EXCEPT !.calls = Append(@, 0)]
     IN probe' = AfterCall(once(em, l), Append(probe.made, l), probe.emits)
  /\ UNCHANGED <<web, game, sim, cutscene, ui, chan, seen>>

\* emitter.off(event, callback) with a callback given to on() earlier
Off(n) ==
  /\ probe.phase = "emitter"
  /\ n \in 1..Len(probe.made) /\ ~probe.made[n].once
  /\ \E i \in 1..Len(probe.events) : probe.events[i] = probe.made[n]
  /\ probe' = AfterCall(off(Emitter, probe.made[n]), probe.made, probe.emits)
  /\ UNCHANGED <<web, game, sim, cutscene, ui, chan, seen>>

\* emitter.emit(event) from outside any listener
EmitEvent ==
  /\ probe.phase = "emitter"
  /\ probe.emits < MaxEmits
  /\ probe' = AfterCall(emit(Emitter), probe.made, probe.emits + 1)
  /\ UNCHANGED <<web, game, sim, cutscene, ui, chan, seen>>

EmitterNext ==
  \/ \E cb \in Callbacks : On(cb)
  \/ \E cb \in Callbacks : Once(cb)
  \/ \E n \in 1..MaxListeners : Off(n)
  \/ EmitEvent

SpecEmitter == InitEmitter /\ [][EmitterNext]_vars

\* listener l is on the emitter's list
Registered(l) == \E i \in 1..Len(probe.events) : probe.events[i] = l

\* C39: a listener given to once() has run at most once, whatever emits were
\* made (those from inside listeners included), and once it has run it is no
\* longer on the list.
C39_OnceListenerOnce ==
  \A n \in 1..Len(probe.made) :
    probe.made[n].once =>
      /\ probe.calls[n] <= 1
      /\ probe.calls[n] >= 1 => ~Registered(probe.made[n])

====
